---------------------------- MODULE Spec2Model ----------------------------
(***************************************************************************)
(* Model of the task synchronization engine of obsidian-mstodo-sync        *)
(* (src/src/sync.ts, src/src/parser.ts).                                   *)
(*                                                                         *)
(* A task text is a sequence of tokens separated by white space.  A token  *)
(* is a pair <<kind, value>>:                                              *)
(*   <<"w", a>>      a plain word of the title                             *)
(*   <<"due", d>>    the due date marker (calendar emoji + date d)         *)
(*   <<"pri", p>>    a priority emoji, p in {"up3", "up2", "down"}         *)
(*   <<"tag", t>>    #t                                                    *)
(*   <<"old", r>>    the legacy link marker   [ms-todo:r]                  *)
(*   <<"lnk", r>>    the current link marker  [.. MS To Do](ms-todo:r)     *)
(*   <<"done", d>>, <<"start", d>>, <<"sched", d>>, <<"rec", x>>           *)
(*                   the Tasks plugin markers                              *)
(*   <<"ref", r>>    the characters ms-todo:r outside any marker           *)
(*   <<"bare", r>>   the characters of identifier r alone                  *)
(* A document is a non-empty sequence of lines; a line is a record         *)
(* [task, done, text]: a task line "- [x] text" or any other line.         *)
(*                                                                         *)
(* Specifications:                                                         *)
(*   Spec         the engine with user edits and failing adapter calls     *)
(*   QuietSpec    the engine alone, every call succeeding, with fairness   *)
(*   OutageSpec   the engine alone, per-list task requests failing too     *)
(*   UnreadableSpec  the engine alone, reads of documents failing twice    *)
(*   PluginSpec   the plugin object of src/src/main.ts and its triggers    *)
(*   ProbeSpec    single functions called on inputs from bounded sets      *)
(***************************************************************************)
EXTENDS Integers, Sequences, FiniteSets, TLC

(***************************************************************************)
(* Bounds of the model.                                                    *)
(***************************************************************************)
\* external edits (local or remote user) in one behaviour
MaxEdits == 1
\* adapter calls that fail in one behaviour
MaxFails == 1
\* clear timers of performBidirectionalSync pending at once
MaxTimers == 1
\* the number of points in time that modification timestamps tell apart,
\* and of values settings.lastSyncTime advances through
MaxStamp == 3
\* calls of performSync in flight at once
MaxFlights == 2
\* handlers of the plugin awaiting saveSettings at once
MaxSaves == 2
\* task lists in the account
MaxLists == 3
\* words and markers on a task line handed to the codec
MaxLen == 3

\* identifiers the remote service can assign to created tasks, in order
FreshIds == <<"n1", "n2">>
\* identifiers of the remote tasks of the initial stores
Ids == {"r1", "r2"}
AllIds == Ids \cup {FreshIds[i] : i \in 1..Len(FreshIds)}

\* the vault's markdown files in getMarkdownFiles() order
DocNames == <<"Tasks.md", "note.md">>
DocSet == {DocNames[i] : i \in 1..Len(DocNames)}

W(a) == <<"w", a>>
Due(d) == <<"due", d>>
Pri(p) == <<"pri", p>>
Tag(t) == <<"tag", t>>
Old(r) == <<"old", r>>
Lnk(r) == <<"lnk", r>>

TaskLine(done, text) == [task |-> TRUE, done |-> done, text |-> text]
RawLine(text) == [task |-> FALSE, done |-> FALSE, text |-> text]

(***************************************************************************)
(* parser.ts                                                               *)
(***************************************************************************)
\* the index of the first token of text s whose kind is in kinds, 0 if none
RECURSIVE FirstOf(_, _, _)
FirstOf(s, kinds, i) ==
    IF i > Len(s) THEN 0
    ELSE IF s[i][1] \in kinds THEN i
    ELSE FirstOf(s, kinds, i + 1)

\* s without its element at index i (s itself when i = 0)
DropAt(s, i) ==
    IF i = 0 THEN s
    ELSE [j \in 1..(Len(s) - 1) |-> IF j < i THEN s[j] ELSE s[j + 1]]

\* text.replace(REGEX, '') for a regular expression without the g flag (the
\* text is bound once, so that a chain of replacements is evaluated once)
ReplaceFirst(text, kinds) ==
    CHOOSE r \in {DropAt(s, FirstOf(s, kinds, 1)) : s \in {text}} : TRUE

\* text.replace(REGEX, '') for a regular expression with the g flag
ReplaceAll(s, kinds) == SelectSeq(s, LAMBDA t : t[1] \notin kinds)

\* text.match(REGEX): the first matching token, <<>> if none
Match(s, kinds) ==
    LET i == FirstOf(s, kinds, 1) IN IF i = 0 THEN <<>> ELSE s[i]

\* parseTaskMetadata: dueDate ("none" when undefined)
DueOf(text) ==
    LET m == Match(text, {"due"}) IN IF m = <<>> THEN "none" ELSE m[2]

\* parseTaskMetadata: priority ("none" when undefined)
PriorityOf(text) ==
    LET m == Match(text, {"pri"})
    IN IF m = <<>> THEN "none"
       ELSE IF m[2] \in {"up3", "up2"} THEN "high"
       ELSE IF m[2] = "down" THEN "low"
       ELSE "normal"

\* parseTaskMetadata: tags
TagsOf(text) == SelectSeq(text, LAMBDA t : t[1] = "tag")

\* parseTaskMetadata: msToDoId ("none" when undefined); the link form wins
MsToDoIdOf(text) ==
    LET l == Match(text, {"lnk"})
        o == Match(text, {"old"})
    IN IF l # <<>> THEN l[2] ELSE IF o # <<>> THEN o[2] ELSE "none"

\* cleanTaskText
cleanTaskText(text) ==
    LET s1 == ReplaceFirst(text, {"old"})
        s2 == ReplaceFirst(s1, {"lnk"})
        s3 == ReplaceFirst(s2, {"due"})
        s4 == ReplaceFirst(s3, {"pri"})
        s5 == ReplaceAll(s4, {"tag"})
        s6 == ReplaceFirst(s5, {"done"})
        s7 == ReplaceFirst(s6, {"start"})
        s8 == ReplaceFirst(s7, {"sched"})
        s9 == ReplaceFirst(s8, {"rec"})
    IN ReplaceFirst(s9, {"done"})

\* parseObsidianTasks: the tasks of one document, in line order
RECURSIVE ParseFrom(_, _, _)
ParseFrom(content, file, i) ==
    IF i > Len(content) THEN <<>>
    ELSE IF content[i].task
         THEN <<[file |-> file, line |-> i, completed |-> content[i].done,
                 text |-> content[i].text]>> \o ParseFrom(content, file, i + 1)
    ELSE ParseFrom(content, file, i + 1)

parseObsidianTasks(content, file) == ParseFrom(content, file, 1)

\* convertObsidianToMSToDoTask: the draft sent to the remote service; a field
\* the draft does not carry is "absent"
convertObsidianToMSToDoTask(task) ==
    [title |-> cleanTaskText(task.text),
     status |-> IF task.completed THEN "completed" ELSE "notStarted",
     importance |-> IF PriorityOf(task.text) = "none" THEN "normal"
                    ELSE PriorityOf(task.text),
     due |-> IF DueOf(task.text) = "none" THEN "absent" ELSE DueOf(task.text),
     body |-> IF TagsOf(task.text) # <<>> THEN "tags" ELSE "absent"]

\* the priority and due date markers formatTaskText and
\* mergeTaskWithExisting write for a remote task
RemoteMarkers(ms) ==
    (IF ms.importance = "high" THEN <<Pri("up3")>>
     ELSE IF ms.importance = "low" THEN <<Pri("down")>> ELSE <<>>)
    \o (IF ms.due # "none" THEN <<Due(ms.due)>> ELSE <<>>)

\* formatTaskText
formatTaskText(ms) == ms.title \o RemoteMarkers(ms) \o <<Lnk(ms.id)>>

\* convertMSToDoToObsidianTask (the fields addTaskToContent reads)
convertMSToDoToObsidianTask(ms, file) ==
    [file |-> file, line |-> 0, completed |-> (ms.status = "completed"),
     text |-> formatTaskText(ms)]

\* one optional match as a sequence of zero or one token
Kept(text, kind) ==
    LET m == Match(text, {kind}) IN IF m = <<>> THEN <<>> ELSE <<m>>

\* mergeTaskWithExisting
mergeTaskWithExisting(task, ms) ==
    LET orig == task.text
        link == IF Match(orig, {"lnk"}) # <<>> THEN <<Match(orig, {"lnk"})>>
                ELSE IF Match(orig, {"old"}) # <<>> THEN <<Match(orig, {"old"})>>
                ELSE <<Lnk(ms.id)>>
    IN [file |-> task.file, line |-> task.line,
        completed |-> (ms.status = "completed"),
        text |-> ms.title
                 \o (IF ms.status = "completed" THEN Kept(orig, "done") ELSE <<>>)
                 \o Kept(orig, "start") \o Kept(orig, "sched") \o Kept(orig, "rec")
                 \o RemoteMarkers(ms) \o link]

\* a rewrite that appends the new line when the recorded line is outside the
\* content
updateTaskInContentOrAppend(content, task, newTask) ==
    IF task.line >= 1 /\ task.line <= Len(content)
    THEN [content EXCEPT ![task.line] = TaskLine(newTask.completed, newTask.text)]
    ELSE content \o <<TaskLine(newTask.completed, newTask.text)>>

\* updateTaskInContent: the line recorded at indexing time is rewritten when
\* it is inside the content read (lines are numbered from 1 here)
updateTaskInContent(content, task, newTask) ==
    IF task.line >= 1 /\ task.line <= Len(content)
    THEN [content EXCEPT ![task.line] = TaskLine(newTask.completed, newTask.text)]
    ELSE content

\* addTaskToContent with position 'bottom'
addTaskToContent(content, task) ==
    content \o <<TaskLine(task.completed, task.text)>>


(***************************************************************************)
(* The state.                                                              *)
(***************************************************************************)
VARIABLES
    docs,                 \* the vault: document name -> its lines
    remote,               \* the remote service: identifier -> task
    recentlyUpdatedTasks, \* TaskSync.recentlyUpdatedTasks
    lastKnownStates,      \* TaskSync.lastKnownStates: identifier -> completed
    pc,                   \* where performBidirectionalSync is
    timers,               \* pending setTimeout(clear, 2000) callbacks
    ops,                  \* syncOperations of the pass, each with its position
    nextFresh,            \* index in FreshIds of the next identifier assigned
    editsLeft,            \* external edits still allowed
    failsLeft,            \* adapter failures still allowed
    wb,                   \* history: write-backs that took effect in the pass
    startSupp,            \* history: recentlyUpdatedTasks when the pass was invoked
    clean,                \* history: no failure and no external edit since the pass began
    cleanRuns,            \* history: passes completed in a row, clean, since the last edit
    failedPush,           \* history: identifier -> direction of its failed push
    lastEdit,             \* history: the external edit made to a pair in agreement
    outcome,              \* how the last call of performBidirectionalSync ended
    plugin,               \* main.ts: the plugin object and its settings
    probe,                \* a function of parser.ts or sync.ts applied to chosen inputs
    unread                \* history: the documents whose read failed in the pass

vars == <<docs, remote, recentlyUpdatedTasks, lastKnownStates, pc, timers, ops,
          nextFresh, editsLeft, failsLeft, wb, startSupp, clean, cleanRuns,
          failedPush, lastEdit, outcome, plugin, probe, unread>>

aside == <<plugin, probe, unread>>
apart == <<outcome, plugin, probe, unread>>
engine == <<recentlyUpdatedTasks, lastKnownStates>>
hist == <<wb, startSupp, clean, cleanRuns, failedPush, lastEdit>>

NoTask == [file |-> "none", line |-> 0, completed |-> FALSE, text |-> <<>>]
NoMs == [id |-> "none", title |-> <<>>, status |-> "notStarted",
         importance |-> "normal", due |-> "none"]
NoPlugin == [at |-> "none"]
NoProbe == [fn |-> "none"]
NoEdit == [side |-> "none", id |-> "none", field |-> "none", val |-> "none"]

\* a remote task as the list request returns it (MSToDoTask)
MsTask(id) ==
    [id |-> id, title |-> remote[id].title, status |-> remote[id].status,
     importance |-> remote[id].importance, due |-> remote[id].due]

(***************************************************************************)
(* sync.ts: syncExistingTask up to its first await                         *)
(***************************************************************************)
\* obsidianState
ObsidianState(task) ==
    [completed |-> task.completed,
     title |-> cleanTaskText(task.text),
     priority |-> IF PriorityOf(task.text) = "none" THEN "normal"
                  ELSE PriorityOf(task.text),
     dueDate |-> DueOf(task.text)]

\* msState
MsState(ms) ==
    [completed |-> (ms.status = "completed"), title |-> ms.title,
     priority |-> ms.importance, dueDate |-> ms.due]

completionDiffers(o, m) == o.completed # m.completed

contentDiffers(o, m) ==
    o.title # m.title \/ o.priority # m.priority \/ o.dueDate # m.dueDate

\* syncExistingTask with the completion branches tried before the content
\* branch
DecideCompletionFirst(task, ms, recent, ledger) ==
    LET o == ObsidianState(task)
        m == MsState(ms)
    IN IF ms.id \in recent THEN "skip"
       ELSE IF o = m THEN "equal"
       ELSE IF completionDiffers(o, m)
       THEN IF ms.id \in DOMAIN ledger
            THEN IF ledger[ms.id] # o.completed THEN "localChanged"
                 ELSE "remoteChanged"
            ELSE IF o.completed THEN "biasLocal" ELSE "biasRemote"
       ELSE "content"

\* syncExistingTask letting the side that was modified last win
DecideLastModified(task, ms, recent, ledger) ==
    LET o == ObsidianState(task)
        m == MsState(ms)
    IN IF ms.id \in recent THEN "skip"
       ELSE IF o = m THEN "equal"
       ELSE IF task.lastModified >= ms.lastModifiedDateTime
       THEN (IF contentDiffers(o, m) THEN "content" ELSE "localChanged")
       ELSE "remoteChanged"

\* syncExistingTask entering the ledger comparison without asking first
\* whether the completion values of the two sides differ
DecideLedgerFirst(task, ms, recent, ledger) ==
    LET o == ObsidianState(task)
        m == MsState(ms)
    IN IF ms.id \in recent THEN "skip"
       ELSE IF ms.id \in DOMAIN ledger
       THEN LET obsidianChanged == ledger[ms.id] # o.completed
                msToDoChanged == ledger[ms.id] # m.completed
            IN IF obsidianChanged /\ ~msToDoChanged THEN "localChanged"
               ELSE IF msToDoChanged /\ ~obsidianChanged THEN "remoteChanged"
               ELSE IF obsidianChanged /\ msToDoChanged
               THEN IF o.completed \/ m.completed
                    THEN IF o.completed THEN "bothLocal" ELSE "bothRemote"
                    ELSE "bothNone"
               ELSE "neither"
       ELSE IF o = m THEN "equal"
       ELSE IF contentDiffers(o, m) THEN "content"
       ELSE IF o.completed THEN "biasLocal" ELSE "biasRemote"

\* syncExistingTask without the check of recentlyUpdatedTasks at its entry
DecideNoEntryCheck(task, ms, recent, ledger) ==
    LET o == ObsidianState(task)
        m == MsState(ms)
    IN IF o = m THEN "equal"
       ELSE IF contentDiffers(o, m) THEN "content"
       ELSE IF ms.id \in recent THEN "recent"
       ELSE IF ms.id \in DOMAIN ledger
       THEN IF ledger[ms.id] # o.completed THEN "localChanged" ELSE "remoteChanged"
       ELSE IF o.completed THEN "biasLocal" ELSE "biasRemote"

\* the branch syncExistingTask takes for a pair, given the suppression set
\* and the ledger at the time of the call
Decide(task, ms, recent, ledger) ==
    LET o == ObsidianState(task)
        m == MsState(ms)
    IN IF ms.id \in recent THEN "skip"
       ELSE IF o = m THEN "equal"
       ELSE IF contentDiffers(o, m) THEN "content"
       ELSE IF completionDiffers(o, m)
       THEN IF ms.id \in recent THEN "recent"
            ELSE IF ms.id \in DOMAIN ledger
            THEN LET obsidianChanged == ledger[ms.id] # o.completed
                     msToDoChanged == ledger[ms.id] # m.completed
                 IN IF obsidianChanged /\ ~msToDoChanged THEN "localChanged"
                    ELSE IF msToDoChanged /\ ~obsidianChanged THEN "remoteChanged"
                    ELSE IF obsidianChanged /\ msToDoChanged
                    THEN IF o.completed \/ m.completed
                         THEN IF o.completed THEN "bothLocal" ELSE "bothRemote"
                         ELSE "bothNone"
                    ELSE "neither"
            ELSE IF o.completed /\ ~m.completed THEN "biasLocal"
                 ELSE IF m.completed /\ ~o.completed THEN "biasRemote"
                 ELSE "biasNone"
       ELSE "nodiff"

\* the update a branch awaits: updateMSToDoTask, updateObsidianTask or none
Push(dec) ==
    IF dec \in {"content", "localChanged", "bothLocal", "biasLocal"} THEN "toRemote"
    ELSE IF dec \in {"remoteChanged", "bothRemote", "biasRemote"} THEN "toLocal"
    ELSE "none"

\* a suppression set that only the content branch adds to
AddsRecentContentOnly(dec) == dec = "content"

\* whether the branch adds the identifier to recentlyUpdatedTasks
AddsRecent(dec) == Push(dec) # "none"

\* a ledger that every call writes, the suppressed ones too
SetsLedgerAlways(dec) == TRUE

\* a ledger that only the calls that push a value write
SetsLedgerOnPush(dec) == Push(dec) # "none"

\* whether the branch calls lastKnownStates.set
SetsLedger(dec) ==
    dec \in {"equal", "recent", "localChanged", "remoteChanged", "bothLocal",
             "bothRemote", "biasLocal", "biasRemote", "biasNone"}

\* a ledger that always stores the local completed value
LedgerValueLocal(dec, task, ms) == ObsidianState(task).completed

\* the completed value the branch stores in lastKnownStates
LedgerValue(dec, task, ms) ==
    LET o == ObsidianState(task)
        m == MsState(ms)
    IN IF dec \in {"equal", "recent", "localChanged", "bothLocal"} THEN o.completed
       ELSE IF dec \in {"remoteChanged", "bothRemote"} THEN m.completed
       ELSE o.completed \/ m.completed

EmptyMap == [x \in {} |-> TRUE]

\* Map.set
MapSet(map, k, v) == [x \in DOMAIN map \cup {k} |-> IF x = k THEN v ELSE map[x]]

\* getDefaultListId: the first list that is the well-known default list or is
\* named Tasks, else the first list; "throw" when the account has no list
getDefaultListId(lists) ==
    LET hits == SelectSeq(lists, LAMBDA l : l.wellknownListName = "defaultList"
                                            \/ l.displayName = "Tasks")
    IN IF hits # <<>> THEN hits[1].id
       ELSE IF Len(lists) > 0 THEN lists[1].id ELSE "throw"

\* syncExistingTask from its call to its return: the update it awaits and
\* what it leaves in recentlyUpdatedTasks and lastKnownStates
syncExistingTask(task, ms, recent, ledger) ==
    LET dec == Decide(task, ms, recent, ledger)
    IN [push |-> Push(dec),
        recent |-> IF AddsRecent(dec) THEN recent \cup {ms.id} ELSE recent,
        ledger |-> IF SetsLedger(dec)
                   THEN MapSet(ledger, ms.id, LedgerValue(dec, task, ms))
                   ELSE ledger]


(***************************************************************************)
(* sync.ts: indexing and syncTasks                                         *)
(***************************************************************************)
\* getAllObsidianTasks: the tasks of every document that could be read, in
\* vault order; bad holds the documents whose read fails
RECURSIVE TasksFrom(_, _, _)
TasksFrom(vault, bad, i) ==
    IF i > Len(DocNames) THEN <<>>
    ELSE (IF DocNames[i] \in DOMAIN vault /\ DocNames[i] \notin bad
          THEN parseObsidianTasks(vault[DocNames[i]], DocNames[i])
          ELSE <<>>) \o TasksFrom(vault, bad, i + 1)

\* an indexing that gives up all local tasks when one read fails
getAllObsidianTasksAbort(vault, bad) ==
    IF bad = {} THEN TasksFrom(vault, bad, 1) ELSE <<>>

getAllObsidianTasks(vault, bad) == TasksFrom(vault, bad, 1)

\* the task lists of the account, in the order /me/todo/lists returns them:
\* a list the user made and the well-known default list
ListIds == <<"L1", "Tasks">>
ListSet == {ListIds[k] : k \in 1..Len(ListIds)}

\* the list a task is in: the tasks the engine creates are in the default list
ListOf(id) == IF id \in {"r1", "r2"} THEN "L1" ELSE "Tasks"

\* the identifiers in the order the list requests return their tasks
IdOrder == <<"r1", "r2">> \o FreshIds

\* getAllMSToDoTasks: the tasks of every list whose request succeeded; down
\* holds the lists whose request fails
RECURSIVE MsTasksFrom(_, _)
MsTasksFrom(down, i) ==
    IF i > Len(IdOrder) THEN <<>>
    ELSE (IF IdOrder[i] \in DOMAIN remote /\ ListOf(IdOrder[i]) \notin down
          THEN <<MsTask(IdOrder[i])>> ELSE <<>>)
         \o MsTasksFrom(down, i + 1)

getAllMSToDoTasks(down) == MsTasksFrom(down, 1)

\* an operation syncTasks has called: where it stands, what it was called
\* with, the branch it took, and (history) the direction of the failed push
\* of the pair in the pass before and the ledger entry the branch found
Op(kind, at, task, ms, dec, prevFail, known) ==
    [kind |-> kind, pc |-> at, task |-> task, ms |-> ms, dec |-> dec,
     buf |-> <<>>, prevFail |-> prevFail, known |-> known]

\* lastKnownStates.get(id), as a string
Known(ledger, id) ==
    IF id \in DOMAIN ledger THEN (IF ledger[id] THEN "true" ELSE "false") ELSE "none"

\* where syncExistingTask stands at its first await
SyncAt(dec) ==
    IF Push(dec) = "toRemote" THEN "patch"
    ELSE IF Push(dec) = "toLocal" THEN "read" ELSE "done"

\* the msTask of msToDoById for an identifier (the last one set wins)
ById(msTasks, id) ==
    LET hits == SelectSeq(msTasks, LAMBDA t : t.id = id) IN hits[Len(hits)]

HasId(msTasks, id) == \E k \in 1..Len(msTasks) : msTasks[k].id = id

\* the first loop of syncTasks over the local tasks: every call runs to its
\* first await, so the decisions are taken in scan order; st is
\* [ops, ledger, failed]
RECURSIVE ScanLocal(_, _, _, _, _)
ScanLocal(tasks, msTasks, recent, i, st) ==
    IF i > Len(tasks) THEN st
    ELSE
      LET t == tasks[i]
          id == MsToDoIdOf(t.text)
      IN IF id = "none"
         THEN ScanLocal(tasks, msTasks, recent, i + 1,
                [st EXCEPT !.ops = Append(@, Op("createMS", "post", t, NoMs, "none", "none", "none"))])
         ELSE IF ~HasId(msTasks, id)
         THEN ScanLocal(tasks, msTasks, recent, i + 1,
                [st EXCEPT !.ops = Append(@, Op("unlink", "read", t, NoMs, "none", "none", "none"))])
         ELSE
           LET ms == ById(msTasks, id)
               dec == Decide(t, ms, recent, st.ledger)
               now == SyncAt(dec) = "done" /\ SetsLedger(dec)
           IN ScanLocal(tasks, msTasks, recent, i + 1,
                [ops |-> Append(st.ops,
                           Op("sync", SyncAt(dec), t, ms, dec,
                              IF dec = "skip" THEN "none" ELSE st.failed[id],
                              Known(st.ledger, id))),
                 ledger |-> IF now THEN MapSet(st.ledger, id, LedgerValue(dec, t, ms))
                            ELSE st.ledger,
                 failed |-> IF dec = "skip" THEN st.failed
                            ELSE [st.failed EXCEPT ![id] = "none"]])

\* a second loop that calls createObsidianTask for every remote task
ScanRemoteAll(tasks, msTasks, i) ==
    [k \in 1..Len(msTasks) |->
       Op("createObs", "rescan", NoTask, msTasks[k], "none", "none", "none")]

\* the second loop of syncTasks: the remote tasks no local task carries
RECURSIVE ScanRemote(_, _, _)
ScanRemote(tasks, msTasks, i) ==
    IF i > Len(msTasks) THEN <<>>
    ELSE (IF \E k \in 1..Len(tasks) : MsToDoIdOf(tasks[k].text) = msTasks[i].id
          THEN <<>>
          ELSE <<Op("createObs", "rescan", NoTask, msTasks[i], "none", "none", "none")>>)
         \o ScanRemote(tasks, msTasks, i + 1)

Remaining(o) == {i \in 1..Len(o) : o[i].pc # "done"}

(***************************************************************************)
(* sync.ts: performBidirectionalSync                                       *)
(***************************************************************************)
\* performBidirectionalSync is invoked and awaits its 500 ms delay
StartPass ==
    /\ pc = "idle"
    /\ pc' = "sleep"
    /\ ops' = <<>>
    /\ wb' = {}
    /\ startSupp' = recentlyUpdatedTasks
    /\ clean' = TRUE
    /\ outcome' = "pending"
    /\ unread' = {}
    /\ UNCHANGED <<plugin, probe, docs, remote, engine, timers, nextFresh, editsLeft,
                   failsLeft, cleanRuns, failedPush, lastEdit>>

\* the delay is over: the clear of recentlyUpdatedTasks is scheduled and the
\* two fetches start
Wake ==
    /\ pc = "sleep"
    /\ timers < MaxTimers
    /\ pc' = "fetch"
    /\ timers' = timers + 1
    /\ UNCHANGED <<apart, docs, remote, engine, ops, nextFresh, editsLeft, failsLeft, hist>>

\* the scheduled callback: this.recentlyUpdatedTasks.clear()
TimerFire ==
    /\ timers > 0
    /\ timers' = timers - 1
    /\ recentlyUpdatedTasks' = {}
    /\ UNCHANGED <<apart, docs, remote, lastKnownStates, pc, ops, nextFresh, editsLeft,
                   failsLeft, hist>>

\* a pass that dispatches its operations while the fetches are still awaited
IndexAndScanStreaming(bad, down) ==
    /\ pc = "fetch"
    /\ ops = <<>>
    /\ Cardinality(bad) + Cardinality(down) <= failsLeft
    /\ LET tasks == getAllObsidianTasks(docs, bad)
           msTasks == getAllMSToDoTasks(down)
           st == ScanLocal(tasks, msTasks, recentlyUpdatedTasks, 1,
                           [ops |-> <<>>, ledger |-> lastKnownStates,
                            failed |-> failedPush])
       IN /\ ops' = st.ops \o ScanRemote(tasks, msTasks, 1)
          /\ lastKnownStates' = st.ledger
          /\ failedPush' = st.failed
    /\ unread' = bad
    /\ UNCHANGED <<outcome, plugin, probe, pc, docs, remote, recentlyUpdatedTasks,
                   timers, nextFresh, editsLeft, failsLeft, wb, startSupp, clean,
                   cleanRuns, lastEdit>>

\* both fetches have returned (the reads of the documents in bad and the
\* requests for the tasks of the lists in down failed and were skipped) and
\* syncTasks has called every operation up to its first await
IndexAndScan(bad, down) ==
    /\ pc = "fetch"
    /\ Cardinality(bad) + Cardinality(down) <= failsLeft
    /\ LET tasks == getAllObsidianTasks(docs, bad)
           msTasks == getAllMSToDoTasks(down)
           st == ScanLocal(tasks, msTasks, recentlyUpdatedTasks, 1,
                           [ops |-> <<>>, ledger |-> lastKnownStates,
                            failed |-> failedPush])
       IN /\ ops' = st.ops \o ScanRemote(tasks, msTasks, 1)
          /\ lastKnownStates' = st.ledger
          /\ failedPush' = st.failed
    /\ pc' = "run"
    /\ failsLeft' = failsLeft - Cardinality(bad) - Cardinality(down)
    /\ clean' = (clean /\ bad = {} /\ down = {})
    /\ unread' = bad
    /\ UNCHANGED <<outcome, plugin, probe, docs, remote, recentlyUpdatedTasks, timers,
                   nextFresh, editsLeft, wb, startSupp, cleanRuns, lastEdit>>

\* the request for the task lists fails: getAllMSToDoTasks throws and the
\* pass ends with the error
FetchFail ==
    /\ pc = "fetch"
    /\ failsLeft > 0
    /\ failsLeft' = failsLeft - 1
    /\ pc' = "idle"
    /\ clean' = FALSE
    /\ cleanRuns' = 0
    /\ outcome' = "raised"
    /\ UNCHANGED <<aside, docs, remote, engine, timers, ops, nextFresh, editsLeft, wb,
                   startSupp, failedPush, lastEdit>>

\* Promise.allSettled has every operation settled: the pass returns
EndPass ==
    /\ pc = "run"
    /\ Remaining(ops) = {}
    /\ pc' = "idle"
    /\ cleanRuns' = IF clean THEN (IF cleanRuns < 2 THEN cleanRuns + 1 ELSE 2) ELSE 0
    /\ outcome' = "returned"
    /\ UNCHANGED <<aside, docs, remote, engine, timers, ops, nextFresh, editsLeft,
                   failsLeft,
                   wb, startSupp, clean, failedPush, lastEdit>>


(***************************************************************************)
(* sync.ts: the operations of a pass after their first await               *)
(***************************************************************************)
\* what syncExistingTask does once the update it awaited has returned; the
\* update functions catch their errors, so this runs after a failure too
Settle(o, failed) ==
    /\ recentlyUpdatedTasks' =
         IF o.kind = "sync" /\ AddsRecent(o.dec)
         THEN recentlyUpdatedTasks \cup {o.ms.id} ELSE recentlyUpdatedTasks
    /\ lastKnownStates' =
         IF o.kind = "sync" /\ SetsLedger(o.dec)
         THEN MapSet(lastKnownStates, o.ms.id, LedgerValue(o.dec, o.task, o.ms))
         ELSE lastKnownStates
    /\ failedPush' =
         IF o.kind = "sync" /\ failed
         THEN [failedPush EXCEPT ![o.ms.id] = Push(o.dec)] ELSE failedPush

\* an operation that ends by abandoning every operation of the pass
FinishAll(i) ==
    ops' = [k \in DOMAIN ops |-> [ops[k] EXCEPT !.pc = "done", !.buf = <<>>]]

Finish(i) == ops' = [ops EXCEPT ![i].pc = "done", ![i].buf = <<>>]

\* the remote service applies a PATCH: the fields the draft carries replace
\* the task's, the others stay
Patched(t, draft) ==
    [title |-> draft.title, status |-> draft.status,
     importance |-> draft.importance,
     due |-> IF draft.due = "absent" THEN t.due ELSE draft.due,
     body |-> IF draft.body = "absent" THEN t.body ELSE draft.body]

\* updateMSToDoTask: the list of the task is found and the PATCH succeeds
PatchOk(i) ==
    /\ pc = "run" /\ ops[i].pc = "patch"
    /\ ops[i].ms.id \in DOMAIN remote
    /\ remote' = [remote EXCEPT ![ops[i].ms.id] =
                    Patched(@, convertObsidianToMSToDoTask(ops[i].task))]
    /\ wb' = wb \cup {<<"patch", ops[i].ms.id>>}
    /\ Settle(ops[i], FALSE)
    /\ Finish(i)
    /\ UNCHANGED <<apart, docs, pc, timers, nextFresh, editsLeft, failsLeft, startSupp,
                   clean, cleanRuns, lastEdit>>

\* updateMSToDoTask: no list holds the task, or a request fails; the error
\* is caught and logged
PatchFail(i) ==
    /\ pc = "run" /\ ops[i].pc = "patch"
    /\ ~(ops[i].ms.id \in DOMAIN remote /\ failsLeft = 0)
    /\ failsLeft' = IF ops[i].ms.id \in DOMAIN remote THEN failsLeft - 1 ELSE failsLeft
    /\ clean' = FALSE
    /\ Settle(ops[i], TRUE)
    /\ Finish(i)
    /\ UNCHANGED <<apart, docs, remote, pc, timers, nextFresh, editsLeft, wb, startSupp,
                   cleanRuns, lastEdit>>

\* vault.read of the task's document in updateObsidianTask, unlinkDeletedTask
\* and addMSToDoIdToObsidianTask
ReadOk(i) ==
    /\ pc = "run" /\ ops[i].pc = "read"
    /\ ops[i].task.file \in DOMAIN docs
    /\ ops' = [ops EXCEPT ![i].pc = "write", ![i].buf = docs[ops[i].task.file]]
    /\ UNCHANGED <<apart, docs, remote, engine, pc, timers, nextFresh, editsLeft, failsLeft,
                   hist>>

\* the read throws; the error is caught and logged
ReadFail(i) ==
    /\ pc = "run" /\ ops[i].pc = "read"
    /\ failsLeft > 0
    /\ failsLeft' = failsLeft - 1
    /\ clean' = FALSE
    /\ Settle(ops[i], TRUE)
    /\ Finish(i)
    /\ UNCHANGED <<apart, docs, remote, pc, timers, nextFresh, editsLeft, wb, startSupp,
                   cleanRuns, lastEdit>>

\* unlinkDeletedTask: cleanTask
cleanTask(task) ==
    [task EXCEPT !.text = ReplaceFirst(ReplaceFirst(task.text, {"old"}), {"lnk"})]

\* addMSToDoIdToObsidianTask: updatedTask
updatedTask(task, msToDoId) == [task EXCEPT !.text = task.text \o <<Lnk(msToDoId)>>]

\* the content an operation hands to vault.modify, from the content it read
NewContent(o) ==
    IF o.kind = "sync"
    THEN updateTaskInContent(o.buf, o.task, mergeTaskWithExisting(o.task, o.ms))
    ELSE IF o.kind = "unlink"
    THEN updateTaskInContent(o.buf, o.task, cleanTask(o.task))
    ELSE IF o.kind = "createMS"
    THEN updateTaskInContent(o.buf, o.task, updatedTask(o.task, o.ms.id))
    ELSE addTaskToContent(o.buf, o.task)

\* vault.modify succeeds
WriteOk(i) ==
    /\ pc = "run" /\ ops[i].pc = "write"
    /\ ops[i].task.file \in DOMAIN docs
    /\ docs' = [docs EXCEPT ![ops[i].task.file] = NewContent(ops[i])]
    /\ wb' = wb \cup {<<"modify", ops[i].task.file>>}
    /\ Settle(ops[i], FALSE)
    /\ ops' = [ops EXCEPT ![i].pc = IF ops[i].kind = "createObs" THEN "ref" ELSE "done",
                          ![i].buf = <<>>]
    /\ UNCHANGED <<apart, remote, pc, timers, nextFresh, editsLeft, failsLeft, startSupp,
                   clean, cleanRuns, lastEdit>>

\* vault.modify throws; the error is caught and logged
WriteFail(i) ==
    /\ pc = "run" /\ ops[i].pc = "write"
    /\ failsLeft > 0
    /\ failsLeft' = failsLeft - 1
    /\ clean' = FALSE
    /\ Settle(ops[i], TRUE)
    /\ Finish(i)
    /\ UNCHANGED <<apart, docs, remote, pc, timers, nextFresh, editsLeft, wb, startSupp,
                   cleanRuns, lastEdit>>

\* createMSToDoTask: the POST succeeds and the service assigns an identifier
PostOk(i) ==
    /\ pc = "run" /\ ops[i].pc = "post"
    /\ nextFresh <= Len(FreshIds)
    /\ LET id == FreshIds[nextFresh]
           draft == convertObsidianToMSToDoTask(ops[i].task)
       IN /\ remote' = MapSet(remote, id,
                         [title |-> draft.title, status |-> draft.status,
                          importance |-> draft.importance,
                          due |-> IF draft.due = "absent" THEN "none" ELSE draft.due,
                          body |-> IF draft.body = "absent" THEN "none"
                                   ELSE draft.body])
          /\ ops' = [ops EXCEPT ![i].pc = "read", ![i].ms = [NoMs EXCEPT !.id = id]]
          /\ wb' = wb \cup {<<"post", id>>}
    /\ nextFresh' = nextFresh + 1
    /\ UNCHANGED <<apart, docs, engine, pc, timers, editsLeft, failsLeft, startSupp, clean,
                   cleanRuns, failedPush, lastEdit>>

\* createMSToDoTask: getDefaultListId or the POST throws
PostFail(i) ==
    /\ pc = "run" /\ ops[i].pc = "post"
    /\ ~(nextFresh <= Len(FreshIds) /\ failsLeft = 0)
    /\ failsLeft' = IF nextFresh <= Len(FreshIds) THEN failsLeft - 1 ELSE failsLeft
    /\ clean' = FALSE
    /\ Finish(i)
    /\ UNCHANGED <<apart, docs, remote, engine, pc, timers, nextFresh, editsLeft, wb,
                   startSupp, cleanRuns, failedPush, lastEdit>>


\* a content check that sees the identifier in link markers only
ContentIncludesMarker(content, id) ==
    \E l \in 1..Len(content) : \E k \in 1..Len(content[l].text) :
        /\ content[l].text[k][1] \in {"old", "lnk"}
        /\ content[l].text[k][2] = id

\* content.includes(`ms-todo:${id}`)
ContentIncludes(content, id) ==
    \E l \in 1..Len(content) : \E k \in 1..Len(content[l].text) :
        /\ content[l].text[k][1] \in {"old", "lnk", "ref"}
        /\ content[l].text[k][2] = id

\* getTargetFileForNewTask: the first of the task file names the vault holds
\* (no document of DocNames is named after today's date); "none" when the
\* file has to be created
TaskFileNames == <<"Tasks.md", "tasks.md", "TODO.md", "todo.md">>

TargetFile(vault) ==
    LET found == SelectSeq(TaskFileNames, LAMBDA n : n \in DOMAIN vault)
    IN IF found # <<>> THEN found[1] ELSE "none"

\* vault.create('Tasks.md', '# Tasks\n\n')
NewTasksFile == <<RawLine(<<W("#"), W("Tasks")>>), RawLine(<<>>), RawLine(<<>>)>>

\* createObsidianTask up to vault.modify: the re-scan of the vault (the reads
\* of the documents in bad fail), the choice of the target file, its read and
\* the check of its content
Rescan(i, bad) ==
    /\ pc = "run" /\ ops[i].pc = "rescan"
    /\ Cardinality(bad) <= failsLeft
    /\ failsLeft' = failsLeft - Cardinality(bad)
    /\ clean' = (clean /\ bad = {})
    /\ LET id == ops[i].ms.id
           allTasks == getAllObsidianTasks(docs, bad)
           existing == \E k \in 1..Len(allTasks) : MsToDoIdOf(allTasks[k].text) = id
           found == TargetFile(docs)
           target == IF found = "none" THEN "Tasks.md" ELSE found
           content == IF found = "none" THEN NewTasksFile ELSE docs[target]
       IN IF existing
          THEN Finish(i) /\ UNCHANGED <<docs, wb>>
          ELSE /\ docs' = IF found = "none" THEN MapSet(docs, target, NewTasksFile)
                          ELSE docs
               /\ wb' = IF found = "none" THEN wb \cup {<<"create", target>>} ELSE wb
               /\ IF target \in bad \/ ContentIncludes(content, id)
                  THEN Finish(i)
                  ELSE ops' = [ops EXCEPT
                                 ![i].pc = "write",
                                 ![i].buf = content,
                                 ![i].task = convertMSToDoToObsidianTask(ops[i].ms, target)]
    /\ UNCHANGED <<apart, remote, engine, pc, timers, nextFresh, editsLeft, startSupp,
                   cleanRuns, failedPush, lastEdit>>

\* updateMSToDoTaskObsidianRef: the PATCH of the body succeeds
RefOk(i) ==
    /\ pc = "run" /\ ops[i].pc = "ref"
    /\ ops[i].ms.id \in DOMAIN remote
    /\ remote' = [remote EXCEPT ![ops[i].ms.id].body = "ref"]
    /\ wb' = wb \cup {<<"patch", ops[i].ms.id>>}
    /\ Finish(i)
    /\ UNCHANGED <<apart, docs, engine, pc, timers, nextFresh, editsLeft, failsLeft,
                   startSupp, clean, cleanRuns, failedPush, lastEdit>>

\* updateMSToDoTaskObsidianRef throws; the error is caught and logged
RefFail(i) ==
    /\ pc = "run" /\ ops[i].pc = "ref"
    /\ ~(ops[i].ms.id \in DOMAIN remote /\ failsLeft = 0)
    /\ failsLeft' = IF ops[i].ms.id \in DOMAIN remote THEN failsLeft - 1 ELSE failsLeft
    /\ clean' = FALSE
    /\ Finish(i)
    /\ UNCHANGED <<apart, docs, remote, engine, pc, timers, nextFresh, editsLeft, wb,
                   startSupp, cleanRuns, failedPush, lastEdit>>


(***************************************************************************)
(* The users: edits of the two stores made outside the engine.             *)
(***************************************************************************)
\* the places <<document, line>> of the local tasks that carry identifier id
LinesOf(id) ==
    UNION {{<<d, l>> : l \in {k \in 1..Len(docs[d]) :
                                 /\ docs[d][k].task
                                 /\ MsToDoIdOf(docs[d][k].text) = id}} :
           d \in DOMAIN docs}

LocalTask(p) ==
    [file |-> p[1], line |-> p[2], completed |-> docs[p[1]][p[2]].done,
     text |-> docs[p[1]][p[2]].text]

\* id links exactly one local task to a remote task and the two projected
\* states are equal
Agreed(id) ==
    /\ id \in DOMAIN remote
    /\ Cardinality(LinesOf(id)) = 1
    /\ \A p \in LinesOf(id) : ObsidianState(LocalTask(p)) = MsState(MsTask(id))

\* the operation has not gone past its first await
Untouched(o) ==
    /\ o.buf = <<>>
    /\ o.pc = (IF o.kind = "sync" THEN SyncAt(o.dec)
               ELSE IF o.kind = "unlink" THEN "read"
               ELSE IF o.kind = "createMS" THEN "post" ELSE "rescan")
    /\ o.ms.id \notin {FreshIds[k] : k \in 1..Len(FreshIds)} \/ o.kind # "createMS"

\* the bookkeeping of an edit of field on side of pair id, to value val
Edited(side, id, field, val) ==
    /\ editsLeft > 0
    /\ pc = "idle" \/ (pc = "run" /\ \A i \in DOMAIN ops : Untouched(ops[i]))
    /\ editsLeft' = editsLeft - 1
    /\ clean' = FALSE
    /\ cleanRuns' = 0
    /\ failedPush' = [x \in AllIds |-> "none"]
    /\ lastEdit' = IF pc = "idle" /\ id # "none" /\ Agreed(id)
                   THEN [side |-> side, id |-> id, field |-> field, val |-> val]
                   ELSE NoEdit
    /\ UNCHANGED <<apart, engine, pc, timers, ops, nextFresh, failsLeft, wb, startSupp>>

IsTaskLine(d, l) == d \in DOMAIN docs /\ l \in 1..Len(docs[d]) /\ docs[d][l].task

OtherWord(w) == IF w = "a" THEN "b" ELSE "a"

\* the user ticks or unticks the checkbox of a task line
LocalToggle(d, l) ==
    /\ IsTaskLine(d, l)
    /\ docs' = [docs EXCEPT ![d][l].done = ~@]
    /\ Edited("local", MsToDoIdOf(docs[d][l].text), "completed",
              IF docs[d][l].done THEN "false" ELSE "true")
    /\ UNCHANGED remote

\* the user changes the first word of a task line
LocalRetitle(d, l) ==
    /\ IsTaskLine(d, l)
    /\ FirstOf(docs[d][l].text, {"w"}, 1) # 0
    /\ LET k == FirstOf(docs[d][l].text, {"w"}, 1)
           text == [docs[d][l].text EXCEPT ![k] = W(OtherWord(@[2]))]
       IN /\ docs' = [docs EXCEPT ![d][l].text = text]
          /\ Edited("local", MsToDoIdOf(text), "title", cleanTaskText(text))
    /\ UNCHANGED remote

\* the user removes the due date of a task line, or adds one
LocalSetDue(d, l) ==
    /\ IsTaskLine(d, l)
    /\ LET text == IF DueOf(docs[d][l].text) = "none"
                   THEN docs[d][l].text \o <<Due("d1")>>
                   ELSE ReplaceFirst(docs[d][l].text, {"due"})
       IN /\ docs' = [docs EXCEPT ![d][l].text = text]
          /\ Edited("local", MsToDoIdOf(text), "dueDate", DueOf(text))
    /\ UNCHANGED remote

\* the user removes the priority of a task line, or makes it high
LocalSetPriority(d, l) ==
    /\ IsTaskLine(d, l)
    /\ LET text == IF PriorityOf(docs[d][l].text) = "none"
                   THEN docs[d][l].text \o <<Pri("up3")>>
                   ELSE ReplaceFirst(docs[d][l].text, {"pri"})
       IN /\ docs' = [docs EXCEPT ![d][l].text = text]
          /\ Edited("local", MsToDoIdOf(text), "priority",
                    ObsidianState([text |-> text, completed |-> FALSE]).priority)
    /\ UNCHANGED remote

\* the user completes or reopens a task in Microsoft To Do
RemoteToggle(r) ==
    /\ r \in DOMAIN remote
    /\ LET st == IF remote[r].status = "completed" THEN "notStarted" ELSE "completed"
       IN /\ remote' = [remote EXCEPT ![r].status = st]
          /\ Edited("remote", r, "completed",
                    IF st = "completed" THEN "true" ELSE "false")
    /\ UNCHANGED docs

\* the user renames a task in Microsoft To Do
RemoteRetitle(r) ==
    /\ r \in DOMAIN remote
    /\ LET title == IF remote[r].title = <<W("a")>> THEN <<W("b")>> ELSE <<W("a")>>
       IN /\ remote' = [remote EXCEPT ![r].title = title]
          /\ Edited("remote", r, "title", title)
    /\ UNCHANGED docs

\* the user removes the due date of a task in Microsoft To Do, or sets one
RemoteSetDue(r) ==
    /\ r \in DOMAIN remote
    /\ LET due == IF remote[r].due = "none" THEN "d1" ELSE "none"
       IN /\ remote' = [remote EXCEPT ![r].due = due]
          /\ Edited("remote", r, "dueDate", due)
    /\ UNCHANGED docs

\* the user changes the importance of a task in Microsoft To Do
RemoteSetImportance(r) ==
    /\ r \in DOMAIN remote
    /\ LET imp == IF remote[r].importance = "normal" THEN "high" ELSE "normal"
       IN /\ remote' = [remote EXCEPT ![r].importance = imp]
          /\ Edited("remote", r, "priority", imp)
    /\ UNCHANGED docs

\* the user deletes a task in Microsoft To Do
RemoteDelete(r) ==
    /\ r \in DOMAIN remote
    /\ remote' = [x \in DOMAIN remote \ {r} |-> remote[x]]
    /\ Edited("remote", "none", "deleted", "none")
    /\ UNCHANGED docs


(***************************************************************************)
(* The initial stores and the specification.                               *)
(***************************************************************************)
Remote(title, status, importance, due) ==
    [title |-> title, status |-> status, importance |-> importance, due |-> due,
     body |-> "none"]

Heading == RawLine(<<W("#"), W("Tasks")>>)

\* the stores the engine is started on: [docs, remote]
Scenarios ==
    << \* a linked pair in agreement, in a note
      [docs |-> ("Tasks.md" :> <<Heading>>) @@
                ("note.md" :> <<TaskLine(FALSE, <<W("a"), Lnk("r1")>>)>>),
       remote |-> ("r1" :> Remote(<<W("a")>>, "notStarted", "normal", "none"))],
      \* completed locally only; tags and a legacy link marker
      [docs |-> ("Tasks.md" :> <<TaskLine(TRUE, <<W("a"), Tag("t"), Old("r1")>>)>>),
       remote |-> ("r1" :> Remote(<<W("a")>>, "notStarted", "normal", "none"))],
      \* completed remotely only; Tasks plugin markers on the line
      [docs |-> ("Tasks.md" :> <<Heading,
                                 TaskLine(FALSE, <<W("a"), <<"start", "d2">>,
                                                   Pri("up2"), Lnk("r1")>>)>>),
       remote |-> ("r1" :> Remote(<<W("a")>>, "completed", "high", "none"))],
      \* completion and title differ
      [docs |-> ("Tasks.md" :> <<TaskLine(TRUE, <<W("b"), Lnk("r1")>>)>>),
       remote |-> ("r1" :> Remote(<<W("a")>>, "notStarted", "normal", "none"))],
      \* completion and due date differ, the remote side completed
      [docs |-> ("Tasks.md" :> <<TaskLine(FALSE, <<W("a"), Due("d1"), Lnk("r1")>>)>>),
       remote |-> ("r1" :> Remote(<<W("a")>>, "completed", "normal", "d2"))],
      \* the remote task has a due date, the local line has none
      [docs |-> ("Tasks.md" :> <<TaskLine(FALSE, <<W("a"), Lnk("r1")>>)>>),
       remote |-> ("r1" :> Remote(<<W("a")>>, "notStarted", "normal", "d1"))],
      \* a link in the legacy form to a remote task that no longer exists
      [docs |-> ("Tasks.md" :> <<TaskLine(TRUE, <<W("a"), Due("d1"), Old("r2"),
                                                  Tag("t")>>)>>),
       remote |-> EmptyMap],
      \* a link in both forms to a remote task that no longer exists
      [docs |-> ("Tasks.md" :> <<TaskLine(FALSE, <<W("b"), Old("r2"), Lnk("r2"),
                                                   W("a")>>)>>),
       remote |-> EmptyMap],
      \* the same link twice, to a remote task that no longer exists
      [docs |-> ("Tasks.md" :> <<TaskLine(FALSE, <<W("a"), Lnk("r2"), Lnk("r2")>>)>>),
       remote |-> EmptyMap],
      \* a new local task
      [docs |-> ("Tasks.md" :> <<TaskLine(FALSE, <<W("a"), Tag("t"), Due("d1")>>)>>),
       remote |-> EmptyMap],
      \* a new remote task, no task file yet
      [docs |-> ("note.md" :> <<Heading>>),
       remote |-> ("r1" :> Remote(<<W("b")>>, "completed", "low", "d2"))],
      \* a new remote task whose identifier the task file mentions
      [docs |-> ("Tasks.md" :> <<RawLine(<<W("a"), <<"ref", "r1">>>>)>>),
       remote |-> ("r1" :> Remote(<<W("a")>>, "notStarted", "normal", "none"))],
      \* a new remote task whose bare identifier the task file mentions
      [docs |-> ("Tasks.md" :> <<RawLine(<<W("a"), <<"bare", "r1">>>>)>>),
       remote |-> ("r1" :> Remote(<<W("a")>>, "notStarted", "normal", "none"))],
      \* a pair in agreement and a new remote task
      [docs |-> ("Tasks.md" :> <<TaskLine(FALSE, <<W("a"), Lnk("r1")>>)>>),
       remote |-> ("r1" :> Remote(<<W("a")>>, "notStarted", "normal", "none")) @@
                  ("r2" :> Remote(<<W("b")>>, "notStarted", "normal", "none"))],
      \* two new local tasks in one document
      [docs |-> ("Tasks.md" :> <<TaskLine(FALSE, <<W("a")>>),
                                 TaskLine(FALSE, <<W("b")>>)>>),
       remote |-> EmptyMap],
      \* two new remote tasks
      [docs |-> ("Tasks.md" :> <<Heading>>),
       remote |-> ("r1" :> Remote(<<W("a")>>, "notStarted", "normal", "none")) @@
                  ("r2" :> Remote(<<W("b")>>, "completed", "normal", "none"))],
      \* a linked line the user has copied and then edited
      [docs |-> ("Tasks.md" :> <<TaskLine(TRUE, <<W("a"), Lnk("r1")>>),
                                 TaskLine(FALSE, <<W("b"), Lnk("r1")>>)>>),
       remote |-> ("r1" :> Remote(<<W("a")>>, "notStarted", "normal", "none"))],
      \* two documents with a task each
      [docs |-> ("Tasks.md" :> <<TaskLine(FALSE, <<W("a")>>)>>) @@
                ("note.md" :> <<TaskLine(FALSE, <<W("b"), Lnk("r1")>>)>>),
       remote |-> ("r1" :> Remote(<<W("b")>>, "notStarted", "normal", "none"))]
    >>

\* the engine as the constructor of TaskSync leaves it, no pass invoked yet,
\* with fails adapter failures to come
Built(fails) ==
    /\ recentlyUpdatedTasks = {}
    /\ lastKnownStates = EmptyMap
    /\ pc = "idle"
    /\ timers = 0
    /\ ops = <<>>
    /\ nextFresh = 1
    /\ editsLeft = MaxEdits
    /\ failsLeft = fails
    /\ wb = {}
    /\ startSupp = {}
    /\ clean = FALSE
    /\ cleanRuns = 0
    /\ failedPush = [x \in AllIds |-> "none"]
    /\ lastEdit = NoEdit
    /\ outcome = "none"
    /\ unread = {}

Constructed == Built(MaxFails)

Init ==
    /\ \E k \in DOMAIN Scenarios :
         docs = Scenarios[k].docs /\ remote = Scenarios[k].remote
    /\ Constructed
    /\ plugin = NoPlugin
    /\ probe = NoProbe

\* a step of the engine: of a pass, of one of its operations, or the timer
EngineNext ==
    \/ StartPass
    \/ Wake
    \/ TimerFire
    \/ \E bad \in SUBSET DOMAIN docs : IndexAndScan(bad, {})
    \/ FetchFail
    \/ EndPass
    \/ \E i \in DOMAIN ops : PatchOk(i)
    \/ \E i \in DOMAIN ops : PatchFail(i)
    \/ \E i \in DOMAIN ops : ReadOk(i)
    \/ \E i \in DOMAIN ops : ReadFail(i)
    \/ \E i \in DOMAIN ops : WriteOk(i)
    \/ \E i \in DOMAIN ops : WriteFail(i)
    \/ \E i \in DOMAIN ops : PostOk(i)
    \/ \E i \in DOMAIN ops : PostFail(i)
    \/ \E i \in DOMAIN ops : \E bad \in SUBSET DOMAIN docs : Rescan(i, bad)
    \/ \E i \in DOMAIN ops : RefOk(i)
    \/ \E i \in DOMAIN ops : RefFail(i)

\* an edit by a user
UserNext ==
    \/ \E d \in DOMAIN docs : \E l \in 1..Len(docs[d]) : LocalToggle(d, l)
    \/ \E d \in DOMAIN docs : \E l \in 1..Len(docs[d]) : LocalRetitle(d, l)
    \/ \E d \in DOMAIN docs : \E l \in 1..Len(docs[d]) : LocalSetDue(d, l)
    \/ \E d \in DOMAIN docs : \E l \in 1..Len(docs[d]) : LocalSetPriority(d, l)
    \/ \E r \in DOMAIN remote : RemoteToggle(r)
    \/ \E r \in DOMAIN remote : RemoteRetitle(r)
    \/ \E r \in DOMAIN remote : RemoteSetDue(r)
    \/ \E r \in DOMAIN remote : RemoteSetImportance(r)
    \/ \E r \in DOMAIN remote : RemoteDelete(r)

Next == EngineNext \/ UserNext

Spec == Init /\ [][Next]_vars

\* the engine alone, every adapter call succeeding: no external edit, no
\* failing read, write or request
QuietNext ==
    \/ StartPass
    \/ Wake
    \/ TimerFire
    \/ IndexAndScan({}, {})
    \/ EndPass
    \/ \E i \in DOMAIN ops : PatchOk(i)
    \/ \E i \in DOMAIN ops : ReadOk(i)
    \/ \E i \in DOMAIN ops : WriteOk(i)
    \/ \E i \in DOMAIN ops : PostOk(i)
    \/ \E i \in DOMAIN ops : Rescan(i, {})
    \/ \E i \in DOMAIN ops : RefOk(i)

\* the timers fire, the awaited calls return and the auto-sync timer keeps
\* invoking passes
QuietSpec == Init /\ [][QuietNext]_vars /\ WF_vars(QuietNext)

\* the engine alone while documents of the vault cannot be read: every other
\* adapter call succeeds, and a read can fail in the rescan of a pass whose
\* indexing it already failed in
UnreadableNext ==
    \/ StartPass
    \/ Wake
    \/ TimerFire
    \/ \E bad \in SUBSET DOMAIN docs : IndexAndScan(bad, {})
    \/ EndPass
    \/ \E i \in DOMAIN ops : PatchOk(i)
    \/ \E i \in DOMAIN ops : ReadOk(i)
    \/ \E i \in DOMAIN ops : ReadFail(i)
    \/ \E i \in DOMAIN ops : WriteOk(i)
    \/ \E i \in DOMAIN ops : PostOk(i)
    \/ \E i \in DOMAIN ops : \E bad \in SUBSET DOMAIN docs : Rescan(i, bad)
    \/ \E i \in DOMAIN ops : RefOk(i)

UnreadableInit ==
    /\ \E k \in DOMAIN Scenarios :
         docs = Scenarios[k].docs /\ remote = Scenarios[k].remote
    /\ Built(MaxFails + 1)
    /\ plugin = NoPlugin
    /\ probe = NoProbe

UnreadableSpec == UnreadableInit /\ [][UnreadableNext]_vars

\* the engine alone while the remote service is unreliable: the requests for
\* the tasks of single lists fail too
OutageNext ==
    \/ StartPass
    \/ Wake
    \/ TimerFire
    \/ \E bad \in SUBSET DOMAIN docs : \E down \in SUBSET ListSet :
         IndexAndScan(bad, down)
    \/ FetchFail
    \/ EndPass
    \/ \E i \in DOMAIN ops : PatchOk(i)
    \/ \E i \in DOMAIN ops : PatchFail(i)
    \/ \E i \in DOMAIN ops : ReadOk(i)
    \/ \E i \in DOMAIN ops : ReadFail(i)
    \/ \E i \in DOMAIN ops : WriteOk(i)
    \/ \E i \in DOMAIN ops : WriteFail(i)
    \/ \E i \in DOMAIN ops : PostOk(i)
    \/ \E i \in DOMAIN ops : PostFail(i)
    \/ \E i \in DOMAIN ops : \E bad \in SUBSET DOMAIN docs : Rescan(i, bad)
    \/ \E i \in DOMAIN ops : RefOk(i)
    \/ \E i \in DOMAIN ops : RefFail(i)

OutageSpec == Init /\ [][OutageNext]_vars

\* the engine and the two stores
taskSync == <<docs, remote, engine, pc, timers, ops, nextFresh, editsLeft,
              failsLeft, hist, outcome, unread>>

\* an engine that has not been invoked, on empty stores
NoVault == docs = EmptyMap /\ remote = EmptyMap /\ Constructed

(***************************************************************************)
(* main.ts: the plugin object. The passes it starts are taken as a whole:  *)
(* each one is in flight from its call to its return or its error.         *)
(***************************************************************************)
\* what calls performSync: the ribbon icon, the command, the interval timer
Triggers == {"ribbon", "command", "timer"}

\* the settings object as saveData writes it to the plugin's data file
Saved(p) ==
    [accessToken |-> p.accessToken, autoSync |-> p.autoSync,
     lastSyncTime |-> p.lastSyncTime]

\* a call of saveSettings by a handler that awaits it: the data are
\* serialised when the call is made
Saving(p, by, value) ==
    [p EXCEPT !.saving = Append(@, [by |-> by, value |-> value, data |-> Saved(p)])]

\* startAutoSync: an existing interval is cleared before the new one is set
startAutoSync(p) ==
    [p EXCEPT !.timers = (IF p.syncInterval THEN @ - 1 ELSE @) + 1,
              !.syncInterval = TRUE]

\* stopAutoSync
stopAutoSync(p) ==
    IF p.syncInterval THEN [p EXCEPT !.timers = @ - 1, !.syncInterval = FALSE] ELSE p

\* the plugin object after onload has read the data file
Loaded(data, active) ==
    LET p == [at |-> "loaded", authenticated |-> data.accessToken,
              accessToken |-> data.accessToken, autoSync |-> data.autoSync,
              syncInterval |-> FALSE, timers |-> active, running |-> <<>>,
              saving |-> <<>>, lastSyncTime |-> data.lastSyncTime,
              notice |-> "none", data |-> data]
    IN IF data.autoSync THEN startAutoSync(p) ELSE p

\* onload: the settings are loaded, the saved token (if any) is handed to
\* the auth handler, and auto-sync starts when the setting is on
onload(token, autoSync) ==
    /\ plugin = NoPlugin
    /\ plugin' = Loaded([accessToken |-> token, autoSync |-> autoSync,
                         lastSyncTime |-> 0], 0)
    /\ UNCHANGED <<taskSync, probe>>

\* the plugin is disabled and enabled again while nothing is in flight:
\* onunload clears the interval, onload reads the data file
reload ==
    /\ plugin.at = "loaded"
    /\ plugin.running = <<>> /\ plugin.saving = <<>>
    /\ plugin' = Loaded(plugin.data,
                        IF plugin.syncInterval THEN plugin.timers - 1 ELSE plugin.timers)
    /\ UNCHANGED <<taskSync, probe>>

\* the auto-sync toggle of the settings tab, up to its await of saveSettings
setAutoSync(value) ==
    /\ plugin.at = "loaded"
    /\ Len(plugin.saving) < MaxSaves
    /\ plugin' = Saving([plugin EXCEPT !.autoSync = value], "toggle", value)
    /\ UNCHANGED <<taskSync, probe>>

\* the sync-interval slider of the settings tab, up to its await of
\* saveSettings
setSyncInterval ==
    /\ plugin.at = "loaded"
    /\ Len(plugin.saving) < MaxSaves
    /\ plugin' = Saving(plugin, "slider", TRUE)
    /\ UNCHANGED <<taskSync, probe>>

\* the Clear Token button of the settings tab
clearToken ==
    /\ plugin.at = "loaded"
    /\ plugin' = [plugin EXCEPT !.accessToken = FALSE]
    /\ UNCHANGED <<taskSync, probe>>

\* saveSettings returns to the k-th handler awaiting it: the data file is
\* written (ok) or saveData throws, and the handler goes on
saveSettings(k, ok) ==
    /\ plugin.at = "loaded"
    /\ k \in DOMAIN plugin.saving
    /\ LET h == plugin.saving[k]
           p == [plugin EXCEPT
                   !.saving = SubSeq(@, 1, k - 1) \o SubSeq(@, k + 1, Len(@)),
                   !.data = IF ok THEN h.data ELSE @]
       IN plugin' =
            IF h.by = "sync"
            THEN [p EXCEPT !.notice = IF ok THEN "completed" ELSE "failed"]
            ELSE IF ~ok THEN p
            ELSE IF h.by = "toggle"
            THEN (IF h.value THEN startAutoSync(p) ELSE stopAutoSync(p))
            ELSE (IF p.autoSync THEN startAutoSync(p) ELSE p)
    /\ UNCHANGED <<taskSync, probe>>

\* authenticate: the sign-in succeeds or fails
authenticate(ok) ==
    /\ plugin.at = "loaded"
    /\ plugin' = [plugin EXCEPT
                    !.authenticated = @ \/ ok,
                    !.notice = IF ok THEN "authenticated" ELSE "authentication failed"]
    /\ UNCHANGED <<taskSync, probe>>

\* performSync up to its await of performBidirectionalSync, called by the
\* ribbon icon, the command or a tick of the interval timer (the tick calls
\* it only when authenticated)
performSync(trigger) ==
    /\ plugin.at = "loaded"
    /\ trigger = "timer" => plugin.timers > 0 /\ plugin.authenticated
    /\ Len(plugin.running) < MaxFlights
    /\ plugin' = IF plugin.authenticated
                 THEN [plugin EXCEPT !.running = Append(@, trigger),
                                     !.notice = "starting"]
                 ELSE [plugin EXCEPT !.notice = "please authenticate"]
    /\ UNCHANGED <<taskSync, probe>>

\* a performSync that stamps lastSyncTime whether the pass returned or raised
PassEndsStamped(k, ok) ==
    /\ plugin.at = "loaded"
    /\ k \in DOMAIN plugin.running
    /\ plugin.lastSyncTime < MaxStamp
    /\ plugin' = [plugin EXCEPT
                    !.running = SubSeq(@, 1, k - 1) \o SubSeq(@, k + 1, Len(@)),
                    !.lastSyncTime = @ + 1,
                    !.notice = IF ok THEN @ ELSE "failed"]
    /\ UNCHANGED <<taskSync, probe>>

\* performBidirectionalSync has returned (ok) or raised for the k-th call in
\* flight: performSync stamps lastSyncTime and awaits saveSettings, or
\* reports the error
PassEnds(k, ok) ==
    /\ plugin.at = "loaded"
    /\ k \in DOMAIN plugin.running
    /\ ok => (plugin.lastSyncTime < MaxStamp /\ Len(plugin.saving) < MaxSaves)
    /\ LET p == [plugin EXCEPT
                   !.running = SubSeq(@, 1, k - 1) \o SubSeq(@, k + 1, Len(@))]
       IN plugin' = IF ok
                    THEN Saving([p EXCEPT !.lastSyncTime = @ + 1], "sync", TRUE)
                    ELSE [p EXCEPT !.notice = "failed"]
    /\ UNCHANGED <<taskSync, probe>>

PluginInit == NoVault /\ plugin = NoPlugin /\ probe = NoProbe

PluginNext ==
    \/ \E token \in BOOLEAN : \E autoSync \in BOOLEAN : onload(token, autoSync)
    \/ reload
    \/ \E value \in BOOLEAN : setAutoSync(value)
    \/ setSyncInterval
    \/ clearToken
    \/ \E k \in 1..MaxSaves : \E ok \in BOOLEAN : saveSettings(k, ok)
    \/ \E ok \in BOOLEAN : authenticate(ok)
    \/ \E trigger \in Triggers : performSync(trigger)
    \/ \E k \in 1..MaxFlights : \E ok \in BOOLEAN : PassEnds(k, ok)

PluginSpec == PluginInit /\ [][PluginNext]_vars

(***************************************************************************)
(* The functions of parser.ts and sync.ts taken one at a time: a function  *)
(* is called on inputs drawn from bounded sets and its result is kept.     *)
(***************************************************************************)
\* the times of modification and of the last successful sync
Stamps == 1..MaxStamp

\* the texts of the task lines the functions are called on
ProbeTexts ==
    {<<W("a"), Lnk("r1")>>,
     <<W("a"), Due("d1"), Lnk("r1")>>,
     <<W("b"), Pri("up3"), Lnk("r1")>>,
     <<W("a"), Tag("t"), Old("r1")>>}

\* a local task of a linked pair, as getAllObsidianTasks returns it, with the
\* time its document was modified
ProbeTasks ==
    {[file |-> "note.md", line |-> 1, completed |-> c, text |-> x,
      lastModified |-> t] : c \in BOOLEAN, x \in ProbeTexts, t \in Stamps}

\* a remote task as the list request returns it
ProbeMsTasks ==
    {[id |-> "r1", title |-> <<W(w)>>, status |-> st, importance |-> imp,
      due |-> due, createdDateTime |-> 1, lastModifiedDateTime |-> t] :
        w \in {"a", "b"}, st \in {"notStarted", "completed"},
        imp \in {"normal", "high"}, due \in {"none", "d1"}, t \in Stamps}

\* the calls of syncExistingTask: the pair, the engine's two maps and
\* settings.lastSyncTime at the time of the call
SyncCalls ==
    {[fn |-> "syncExistingTask", at |-> "called", task |-> t, ms |-> m,
      recent |-> r, ledger |-> l, lastSyncTime |-> s, out |-> "none"] :
        t \in ProbeTasks, m \in ProbeMsTasks, r \in {{}, {"r1"}},
        l \in {EmptyMap, ("r1" :> TRUE), ("r1" :> FALSE)}, s \in Stamps}

\* the task lists an account can have
ListPool ==
    {[id |-> "L1", wellknownListName |-> "none", displayName |-> "Work"],
     [id |-> "Tasks", wellknownListName |-> "defaultList", displayName |-> "Tasks"],
     [id |-> "L3", wellknownListName |-> "none", displayName |-> "Home"]}

\* the responses of /me/todo/lists: the lists of the account in any order
ListResponses ==
    {q \in UNION {[1..n -> ListPool] : n \in 0..MaxLists} :
       \A a \in DOMAIN q : \A b \in DOMAIN q : a # b => q[a] # q[b]}

\* the calls of getDefaultListId: the lists of the account and the value of
\* settings.defaultList
ListCalls ==
    {[fn |-> "getDefaultListId", at |-> "called", lists |-> q, defaultList |-> d,
      out |-> "none"] : q \in ListResponses, d \in {"", "Work", "Home"}}

\* the words and the supported markers of a task line
CodecTokens ==
    {W("a"), W("b"), Due("d1"), Due("d2"), Pri("up3"), Pri("down"), Tag("t"),
     Lnk("r1"), Old("r1")}

\* the calls of the codec: a local task that carries supported metadata only
CodecCalls ==
    {[fn |-> "codec", at |-> "called",
      task |-> [file |-> "note.md", line |-> 1, completed |-> c, text |-> x],
      out |-> "none"] :
        c \in BOOLEAN, x \in UNION {[1..n -> CodecTokens] : n \in 0..MaxLen}}

\* the lines of the documents updateTaskInContent is called on
ProbeLines ==
    {Heading, TaskLine(FALSE, <<W("a")>>), TaskLine(TRUE, <<W("b"), Lnk("r1")>>)}

\* the calls of updateTaskInContent: the content read, the task with the
\* line recorded at indexing time (from before the first line to after the
\* last one), and the task to write
RewriteCalls ==
    {[fn |-> "updateTaskInContent", at |-> "called", content |-> c,
      task |-> [file |-> "note.md", line |-> l, completed |-> FALSE,
                text |-> <<W("a")>>],
      newTask |-> [file |-> "note.md", line |-> l, completed |-> d, text |-> x],
      out |-> "none"] :
        c \in UNION {[1..n -> ProbeLines] : n \in 0..MaxLen}, l \in 0..MaxLen + 1,
        d \in BOOLEAN, x \in {<<W("a")>>, <<W("b"), Lnk("r1")>>}}

ProbeInputs == SyncCalls \cup ListCalls \cup CodecCalls \cup RewriteCalls

\* updateTaskInContent runs to its return
CallUpdateTaskInContent ==
    /\ probe.fn = "updateTaskInContent" /\ probe.at = "called"
    /\ probe' = [probe EXCEPT
                   !.at = "returned",
                   !.out = updateTaskInContent(probe.content, probe.task,
                                               probe.newTask)]
    /\ UNCHANGED <<taskSync, plugin>>

\* convertObsidianToMSToDoTask, then formatTaskText of the draft (which has
\* no id yet), then cleanTaskText
CallCodec ==
    /\ probe.fn = "codec" /\ probe.at = "called"
    /\ LET draft == convertObsidianToMSToDoTask(probe.task)
           msTask == [id |-> "undefined", title |-> draft.title,
                      importance |-> draft.importance,
                      due |-> IF draft.due = "absent" THEN "none" ELSE draft.due]
       IN probe' = [probe EXCEPT !.at = "returned",
                                  !.out = cleanTaskText(formatTaskText(msTask))]
    /\ UNCHANGED <<taskSync, plugin>>

\* getDefaultListId runs to its return or its throw
CallGetDefaultListId ==
    /\ probe.fn = "getDefaultListId" /\ probe.at = "called"
    /\ probe' = [probe EXCEPT !.at = "returned",
                                !.out = getDefaultListId(probe.lists)]
    /\ UNCHANGED <<taskSync, plugin>>

\* syncExistingTask runs to its return
CallSyncExistingTask ==
    /\ probe.fn = "syncExistingTask" /\ probe.at = "called"
    /\ probe' = [probe EXCEPT
                   !.at = "returned",
                   !.out = syncExistingTask(probe.task, probe.ms, probe.recent,
                                            probe.ledger)]
    /\ UNCHANGED <<taskSync, plugin>>

ProbeInit ==
    /\ NoVault
    /\ plugin = NoPlugin
    /\ probe \in ProbeInputs

ProbeNext ==
    \/ CallSyncExistingTask
    \/ CallGetDefaultListId
    \/ CallCodec
    \/ CallUpdateTaskInContent

ProbeSpec == ProbeInit /\ [][ProbeNext]_vars

(***************************************************************************)
\* the pair resolutions of the pass that were not skipped
Resolved == {i \in DOMAIN ops : ops[i].kind = "sync" /\ ops[i].dec # "skip"}

\* the projected states syncExistingTask compared for operation i
OpLocal(i) == ObsidianState(ops[i].task)
OpRemote(i) == MsState(ops[i].ms)

\* the local line and the remote task of operation i as they are now
LineNow(i) == docs[ops[i].task.file][ops[i].task.line]
RemoteDone(id) == id \in DOMAIN remote /\ remote[id].status = "completed"

\* C1: No infinite update loop. With no external edit and every adapter call
\* succeeding, from some pass on no pass issues a write-back.
C1_NoInfiniteLoop == <>[](wb = {})

\* C2: Idempotence. The second of two passes run in succession, with no
\* external change and no failure in or between them, issues no write-back.
C2_Idempotent == (pc = "idle" /\ cleanRuns = 2) => wb = {}

C4_Converges ==
    (pc = "idle" /\ clean) =>
    \A i \in Resolved :
        (/\ ops[i].known # "none"
         /\ completionDiffers(OpLocal(i), OpRemote(i))
         /\ ~contentDiffers(OpLocal(i), OpRemote(i)))
        => /\ Push(ops[i].dec) =
                (IF ops[i].known = (IF OpRemote(i).completed THEN "true" ELSE "false")
                 THEN "toRemote" ELSE "toLocal")
           /\ LineNow(i).done = RemoteDone(ops[i].ms.id)

C6_Suppressed ==
    \A i \in DOMAIN ops :
        (ops[i].kind = "sync" /\ ops[i].ms.id \in startSupp) => ops[i].dec = "skip"

\* C7: A failed write-back leaves the pair unresolved. With no external
\* change since, the next resolution of a pair whose push failed pushes in
\* the same direction.
C7_RetrySameDirection ==
    \A i \in Resolved :
        ops[i].prevFail \in {"toRemote", "toLocal"} => Push(ops[i].dec) = ops[i].prevFail

\* some task line of the vault carries id as its remote-link identifier
Linked(vault, id) ==
    LET allTasks == getAllObsidianTasks(vault, {})
    IN \E k \in 1..Len(allTasks) : MsToDoIdOf(allTasks[k].text) = id

\* the identifier occurs in the content in a token of one of the kinds
Mentions(content, id, kinds) ==
    \E l \in 1..Len(content) : \E k \in 1..Len(content[l].text) :
        /\ content[l].text[k][1] \in kinds
        /\ content[l].text[k][2] = id

\* the spellings of an identifier that hold ms-todo:<id>, and all spellings
Prefixed == {"old", "lnk", "ref"}
Spelled == {"old", "lnk", "ref", "bare"}

\* the content of the document getTargetFileForNewTask chooses
Destination ==
    IF TargetFile(docs) = "none" THEN NewTasksFile ELSE docs[TargetFile(docs)]

\* createObsidianTask of operation i runs its checks, every read succeeding
RescanStep(i) ==
    /\ ops[i].kind = "createObs"
    /\ ops[i].pc = "rescan"
    /\ ops'[i].pc # "rescan"
    /\ failsLeft' = failsLeft

\* C8: Duplicate-create guard. For a remote-only task whose identifier the
\* destination document holds in the form ms-todo:<id>, or which a task line
\* found by the re-scan carries as its link, createObsidianTask ends without
\* a change of any document or of the remote store.
C8_DuplicateGuard ==
    [][\A i \in DOMAIN ops :
          (/\ RescanStep(i)
           /\ \/ Mentions(Destination, ops[i].ms.id, Prefixed)
              \/ Linked(docs, ops[i].ms.id))
          => (ops'[i].pc = "done" /\ docs' = docs /\ remote' = remote)]_vars

\* a creation was dropped because of a mention ms-todo:<id> that is no link
\* of a task line
C8_Witness ==
    \E i \in DOMAIN ops :
        /\ ops[i].kind = "createObs"
        /\ ops[i].pc = "done"
        /\ ops[i].task = NoTask
        /\ failsLeft = MaxFails
        /\ ~Linked(docs, ops[i].ms.id)
        /\ Mentions(Destination, ops[i].ms.id, Prefixed)

\* C8 as stated: the guard holds for every occurrence of the identifier in
\* the raw text of the destination document.
C8_AnyMention ==
    [][\A i \in DOMAIN ops :
          (/\ RescanStep(i)
           /\ \/ Mentions(Destination, ops[i].ms.id, Spelled)
              \/ Linked(docs, ops[i].ms.id))
          => (ops'[i].pc = "done" /\ docs' = docs /\ remote' = remote)]_vars

\* the text without its link markers
Unmarked(text) == ReplaceAll(text, {"old", "lnk"})

\* C9: Unlink. The line unlinkDeletedTask writes carries no link marker of
\* either form, has the completion flag and every other part of the line it
\* was called with, and the remote store is left alone.
C9_Unlink ==
    [][\A i \in DOMAIN ops :
          (ops[i].kind = "unlink" /\ ops[i].pc = "write" /\ ops'[i].pc = "done"
           /\ wb' # wb)
          => LET line == docs'[ops[i].task.file][ops[i].task.line]
             IN /\ Match(line.text, {"old", "lnk"}) = <<>>
                /\ line.done = ops[i].task.completed
                /\ Unmarked(line.text) = Unmarked(ops[i].task.text)
                /\ remote' = remote]_vars

\* the value the remote side of pair id has in field
RemoteField(id, field) ==
    IF field = "completed"
    THEN (IF MsState(MsTask(id)).completed THEN "true" ELSE "false")
    ELSE IF field = "title" THEN MsState(MsTask(id)).title
    ELSE IF field = "priority" THEN MsState(MsTask(id)).priority
    ELSE MsState(MsTask(id)).dueDate

\* C10: Bidirectional sync. After a pass without failure that resolved the
\* pair, an edit made to one side of a pair in agreement is on both sides.
C10_Bidirectional ==
    (/\ pc = "idle" /\ cleanRuns >= 1
     /\ lastEdit.side # "none"
     /\ \E i \in Resolved : ops[i].ms.id = lastEdit.id)
    => /\ Agreed(lastEdit.id)
       /\ RemoteField(lastEdit.id, lastEdit.field) = lastEdit.val

\* the call of syncExistingTask under test has returned
SyncReturned == probe.fn = "syncExistingTask" /\ probe.at = "returned"

C12_LaterEditWins ==
    (/\ SyncReturned
     /\ probe.ms.id \notin probe.recent
     /\ ObsidianState(probe.task) # MsState(probe.ms)
     /\ probe.task.lastModified > probe.lastSyncTime
     /\ probe.ms.lastModifiedDateTime > probe.lastSyncTime
     /\ probe.task.lastModified # probe.ms.lastModifiedDateTime)
    => probe.out.push = (IF probe.task.lastModified > probe.ms.lastModifiedDateTime
                         THEN "toRemote" ELSE "toLocal")

\* the markers of a task line that Microsoft To Do has no field for
LocalOnly == {"tag", "start", "sched", "rec", "old", "lnk"}

\* C13: Local-only metadata is preserved by a remote-to-local update. When
\* updateObsidianTask rewrites a local line from the remote task, every tag,
\* start date, scheduled date, recurrence and link marker that was on the
\* line before the write is on the line after it.
C13_LocalMetadataKept ==
    [][\A i \in DOMAIN ops :
         (ops[i].kind = "sync" /\ WriteOk(i)
            /\ ops[i].task.line \in DOMAIN docs[ops[i].task.file]) =>
           LET before == LineNow(i).text
               after == docs'[ops[i].task.file][ops[i].task.line].text
           IN \A k \in DOMAIN before :
                before[k][1] \in LocalOnly =>
                  \E n \in DOMAIN after : after[n] = before[k]]_vars

\* C14: Single-flight passes. At no time are two passes in flight at once: a
\* trigger (timer tick, ribbon click or command) that arrives while a pass is
\* running does not start an overlapping pass.
C14_SingleFlight == plugin.at = "loaded" => Len(plugin.running) <= 1

\* a request of getAllMSToDoTasks fails: the one for the task lists, or the
\* one for the tasks of a list
IndexError ==
    \/ FetchFail
    \/ \E bad \in SUBSET DOMAIN docs : \E down \in SUBSET ListSet :
         down # {} /\ IndexAndScan(bad, down)

\* C15: A remote API error during indexing, while listing the task lists or
\* while listing the tasks of any one list, makes the whole pass fail: the
\* error is raised to the caller of performBidirectionalSync and no
\* resolution or write-back is performed in that pass.
C15_IndexErrorFailsPass ==
    [][IndexError => (outcome' = "raised" /\ pc' = "idle" /\ ops' = <<>>)]_vars

\* a call of operation i fails: the PATCH, the POST, the lookup of the list,
\* the read or the write of the document
OpFails(i) ==
    PatchFail(i) \/ PostFail(i) \/ RefFail(i) \/ ReadFail(i) \/ WriteFail(i)

\* C16: A failure of one pair's write-back does not abort the other
\* operations of the pass and does not make the pass fail: the failing step
\* leaves every other operation where it was, the pass goes on, and
\* performBidirectionalSync raises only before any operation was dispatched.
C16_FailureIsolated ==
    [][/\ \A i \in DOMAIN ops :
            OpFails(i) =>
              /\ pc' = "run" /\ outcome' = "pending"
              /\ \A k \in DOMAIN ops \ {i} : ops'[k] = ops[k]
       /\ (outcome # "raised" /\ outcome' = "raised") =>
            (pc = "fetch" /\ ops = <<>>)]_vars

\* a pass has returned in which the push of one pair failed and the task of
\* another operation was appended and linked
C16_Witness ==
    /\ pc = "idle" /\ outcome = "returned"
    /\ \E i \in DOMAIN ops : \E k \in DOMAIN ops :
         /\ ops[i].kind = "sync" /\ ops[i].dec # "skip"
         /\ failedPush[ops[i].ms.id] # "none"
         /\ ops[k].kind = "createObs"
         /\ <<"patch", ops[k].ms.id>> \in wb

\* C17: Destination list for a new remote task. createMSToDoTask creates the
\* task in the configured default list when one is configured and exists,
\* else in the well-known default list, else in the first available list,
\* and issues no create when no list exists.
C17_DestinationList ==
    (probe.fn = "getDefaultListId" /\ probe.at = "returned") =>
      LET named == SelectSeq(probe.lists, LAMBDA l : /\ probe.defaultList # ""
                                                    /\ l.displayName = probe.defaultList)
          known == SelectSeq(probe.lists,
                             LAMBDA l : l.wellknownListName = "defaultList")
      IN probe.out = (IF named # <<>> THEN named[1].id
                      ELSE IF known # <<>> THEN known[1].id
                      ELSE IF probe.lists # <<>> THEN probe.lists[1].id
                      ELSE "throw")

\* C18: Codec round-trip. For every local task carrying only supported
\* metadata (due date, priority, tags, link marker), converting it to a
\* remote draft, converting that back to local text and normalizing with
\* cleanTaskText gives the same string as cleanTaskText of the original text.
C18_RoundTrip ==
    (probe.fn = "codec" /\ probe.at = "returned") =>
      probe.out = cleanTaskText(probe.task.text)

\* C19: Pair resolution is sequential. Within a pass the ledger and the
\* suppression set are written only during the one sequential scan of the
\* pairs: once the operations are running, a step that puts an entry into
\* lastKnownStates or recentlyUpdatedTasks is never taken while another
\* operation of the pass is still pending.
C19_SequentialResolution ==
    [][(/\ pc = "run"
        /\ \/ lastKnownStates' # lastKnownStates
           \/ ~(recentlyUpdatedTasks' \subseteq recentlyUpdatedTasks))
       => \A k \in DOMAIN ops : ops'[k].pc # ops[k].pc \/ ops[k].pc = "done"]_vars

\* C20: Local-only creation under concurrent dispatch. After a pass in which
\* every adapter call succeeded, every local task that was local-only at
\* indexing has a remote task created for it and its line carries a link
\* marker with that task's identifier, also when several local-only tasks
\* are in the same document.
C20_LocalOnlyLinked ==
    (pc = "idle" /\ outcome = "returned" /\ clean) =>
      \A i \in DOMAIN ops :
        ops[i].kind = "createMS" =>
          /\ ops[i].ms.id \in DOMAIN remote
          /\ MsToDoIdOf(LineNow(i).text) = ops[i].ms.id

\* createObsidianTask of operation i has appended its line and returned
Appended(i) ==
    ops[i].kind = "createObs" /\ ops[i].pc = "done" /\ ops[i].task # NoTask

\* C21: Remote-only creation under concurrent dispatch. After a pass in
\* which every adapter call succeeded, the destination document holds the
\* line each createObsidianTask operation appended, also when several of
\* them read and wrote the same document: no appended line is lost.
C21_AppendedKept ==
    (pc = "idle" /\ outcome = "returned" /\ clean) =>
      \A i \in DOMAIN ops :
        Appended(i) =>
          \E l \in DOMAIN docs[ops[i].task.file] :
            /\ docs[ops[i].task.file][l].task
            /\ MsToDoIdOf(docs[ops[i].task.file][l].text) = ops[i].ms.id

\* C22: One resolution per remote identifier. Within one pass at most one
\* pair resolution runs, and so at most one write-back is issued, for each
\* remote identifier, also when two local task lines carry the same
\* remote-link identifier.
C22_OneResolutionPerId ==
    \A i \in DOMAIN ops : \A k \in DOMAIN ops :
      (i # k /\ ops[i].kind = "sync" /\ ops[k].kind = "sync") =>
        ops[i].ms.id # ops[k].ms.id

\* C23: Unlink only on real deletion. unlinkDeletedTask rewrites a local
\* line without its link marker only if no remote task with the identifier
\* of the marker exists in the remote store.
C23_UnlinkOnlyDeleted ==
    [][\A i \in DOMAIN ops :
         (ops[i].kind = "unlink" /\ WriteOk(i)) =>
           MsToDoIdOf(ops[i].task.text) \notin DOMAIN remote]_vars

\* C24: Ledger refresh on every resolution. After syncExistingTask has
\* resolved a non-suppressed pair by any branch, whether or not a write
\* occurred, the ledger holds an entry for the identifier whose completed
\* value is the completion value the pair agrees on: that of the side that
\* was pushed, or the common value when nothing was pushed.
C24_LedgerRefreshed ==
    (SyncReturned /\ probe.ms.id \notin probe.recent) =>
      /\ probe.ms.id \in DOMAIN probe.out.ledger
      /\ probe.out.ledger[probe.ms.id] =
           (IF probe.out.push = "toLocal" THEN MsState(probe.ms).completed
            ELSE probe.task.completed)

\* the branches of the completion-conflict policy that push a value, by the
\* side that wins
LocalWins == {"localChanged", "bothLocal", "biasLocal"}
RemoteWins == {"remoteChanged", "bothRemote", "biasRemote"}

\* C25: Completion-conflict bookkeeping. In every branch of the
\* completion-conflict policy that pushes a value, when the branch ends the
\* ledger entry of the identifier holds the winning side's completed value
\* and the identifier is in the suppression set.
C25_ConflictBookkeeping ==
    [][\A i \in DOMAIN ops :
         (/\ ops[i].kind = "sync"
          /\ ops[i].dec \in LocalWins \cup RemoteWins
          /\ ops[i].pc # "done" /\ ops'[i].pc = "done") =>
           /\ ops[i].ms.id \in recentlyUpdatedTasks'
           /\ ops[i].ms.id \in DOMAIN lastKnownStates'
           /\ lastKnownStates'[ops[i].ms.id] =
                (IF ops[i].dec \in LocalWins THEN OpLocal(i).completed
                 ELSE OpRemote(i).completed)]_vars

\* the remote side won a completion conflict with a ledger entry, and the
\* local line was rewritten
C25_Witness ==
    \E i \in DOMAIN ops :
      /\ ops[i].kind = "sync" /\ ops[i].dec = "remoteChanged" /\ ops[i].pc = "done"
      /\ <<"modify", ops[i].task.file>> \in wb
      /\ ops[i].ms.id \in recentlyUpdatedTasks
      /\ lastKnownStates[ops[i].ms.id] = OpRemote(i).completed

\* C26: The suppression set is cleared only after the pass. The scheduled
\* clear never fires while the pass that scheduled it is still fetching or
\* has operations in flight, and when the pass returns every identifier a
\* resolution of the pass added to recentlyUpdatedTasks is still in the set.
C26_ClearAfterPass ==
    [][/\ (timers' < timers) => pc \notin {"fetch", "run"}
       /\ (pc = "run" /\ pc' = "idle") =>
            \A i \in DOMAIN ops :
              (ops[i].kind = "sync" /\ Push(ops[i].dec) # "none") =>
                ops[i].ms.id \in recentlyUpdatedTasks]_vars

\* C27: Suppression is released. When no clear is scheduled any more and no
\* pass has passed its initial delay, no identifier is left in the
\* suppression set: the clear a pass scheduled has removed every identifier
\* the pass added, without a later pass having to start.
C27_SuppressionReleased ==
    (timers = 0 /\ pc \in {"idle", "sleep"}) => recentlyUpdatedTasks = {}

\* C28: Suppressed pairs are left alone. A call of syncExistingTask for an
\* identifier that is in the suppression set awaits no update (no remote
\* patch, no local rewrite) and returns with the ledger and the suppression
\* set as they were.
C28_SuppressedLeftAlone ==
    (SyncReturned /\ probe.ms.id \in probe.recent) =>
      /\ probe.out.push = "none"
      /\ probe.out.ledger = probe.ledger
      /\ probe.out.recent = probe.recent

\* a suppressed call for a pair whose states differ and that has no ledger
\* entry
C28_Witness ==
    /\ SyncReturned
    /\ probe.ms.id \in probe.recent
    /\ ObsidianState(probe.task) # MsState(probe.ms)
    /\ probe.ms.id \notin DOMAIN probe.ledger
    /\ probe.out.push = "none"

\* C29: Equal states. A call of syncExistingTask for a non-suppressed pair
\* whose projected states {completed, title, priority, dueDate} are equal
\* awaits no update, leaves the suppression set unchanged, and returns with
\* the ledger entry of the identifier set to the local completed value.
C29_EqualStates ==
    (/\ SyncReturned
     /\ probe.ms.id \notin probe.recent
     /\ ObsidianState(probe.task) = MsState(probe.ms)) =>
      /\ probe.out.push = "none"
      /\ probe.out.recent = probe.recent
      /\ probe.out.ledger = MapSet(probe.ledger, probe.ms.id, probe.task.completed)

\* an equal pair whose ledger entry held the other value before the call
C29_Witness ==
    /\ SyncReturned
    /\ probe.ms.id \notin probe.recent
    /\ ObsidianState(probe.task) = MsState(probe.ms)
    /\ probe.ms.id \in DOMAIN probe.ledger
    /\ probe.ledger[probe.ms.id] # probe.task.completed
    /\ probe.out.ledger[probe.ms.id] = probe.task.completed

\* C30: With a ledger entry and a completion difference, exactly one side
\* differs from the ledger. Every resolution of a pass that compared the two
\* completion values with a ledger entry found exactly one of them different
\* from the entry: it took the 'only local changed' or the 'only remote
\* changed' branch, never 'both changed' or 'neither changed'.
C30_ExactlyOneChanged ==
    \A i \in DOMAIN ops :
      (/\ ops[i].kind = "sync"
       /\ ops[i].known # "none"
       /\ ops[i].dec \notin {"skip", "equal", "content"}) =>
        /\ ops[i].dec \in {"localChanged", "remoteChanged"}
        /\ (ops[i].dec = "localChanged") =
             (ops[i].known # Known(("x" :> OpLocal(i).completed), "x"))
        /\ (ops[i].dec = "remoteChanged") =
             (ops[i].known # Known(("x" :> OpRemote(i).completed), "x"))

\* a resolution found a ledger entry and a completion difference, took the
\* 'only local changed' branch and has patched the remote task
C30_Witness ==
    \E i \in DOMAIN ops :
      /\ ops[i].kind = "sync" /\ ops[i].known # "none"
      /\ OpLocal(i).completed # OpRemote(i).completed
      /\ ops[i].dec = "localChanged" /\ ops[i].pc = "done"

\* C31: Indexing precedes resolution. While a pass is in its initial delay
\* or awaits its two fetches, no operation of the pass has been called (no
\* resolution decision is taken) and no write-back has been issued; the
\* operations appear in the step in which both fetches have returned.
C31_IndexBeforeResolution ==
    /\ pc \in {"sleep", "fetch"} => (ops = <<>> /\ wb = {})
    /\ (ops # <<>> \/ wb # {}) => pc \in {"run", "idle"}

\* a pass that has indexed a linked pair, decided to push and issued the
\* write-back
C31_Witness ==
    /\ pc = "run"
    /\ \E i \in DOMAIN ops :
         ops[i].kind = "sync" /\ Push(ops[i].dec) # "none" /\ ops[i].pc = "done"
    /\ wb # {}

\* C32: Classification is a partition. In the step in which a pass calls
\* its operations, every local task of a document that was read gets exactly
\* one operation: pair resolution if it carries a link whose identifier is
\* in the remote index, unlink if it carries a link whose identifier is not,
\* remote creation if it carries no link; and a remote task gets exactly one
\* local-creation operation if no indexed local task carries its identifier,
\* and none otherwise.
C32_Partition ==
    [][(pc = "fetch" /\ pc' = "run") =>
         LET loc == {i \in DOMAIN ops' : ops'[i].kind # "createObs"}
             carried == {MsToDoIdOf(ops'[i].task.text) : i \in loc}
             at(d, l) == {i \in loc : ops'[i].task.file = d /\ ops'[i].task.line = l}
         IN /\ \A d \in DOMAIN docs :
                 (\E i \in loc : ops'[i].task.file = d) =>
                   \A l \in DOMAIN docs[d] :
                     Cardinality(at(d, l)) = IF docs[d][l].task THEN 1 ELSE 0
            /\ \A i \in loc :
                 LET id == MsToDoIdOf(docs[ops'[i].task.file][ops'[i].task.line].text)
                 IN ops'[i].kind = IF id = "none" THEN "createMS"
                                   ELSE IF id \in DOMAIN remote THEN "sync"
                                   ELSE "unlink"
            /\ \A r \in DOMAIN remote :
                 Cardinality({i \in DOMAIN ops' :
                                ops'[i].kind = "createObs" /\ ops'[i].ms.id = r})
                   = IF r \in carried THEN 0 ELSE 1
            /\ \A i \in DOMAIN ops' :
                 ops'[i].kind = "createObs" => ops'[i].ms.id \in DOMAIN remote]_vars

\* a pass that has classified a linked pair, a local task without link and
\* a remote task no local task carries
C32_Witness ==
    /\ pc = "run"
    /\ \A kind \in {"sync", "createMS", "createObs"} :
         \E i \in DOMAIN ops : ops[i].kind = kind

\* C33: A local read failure is not fatal. In the step in which a pass
\* whose reads of some documents failed calls its operations, every task of
\* every other document has an operation, no operation is for a task of a
\* document that failed to read, and the pass has not raised; and a pass
\* with a failed read that has ended has returned.
C33_ReadFailureTolerated ==
    [][/\ (pc = "fetch" /\ pc' = "run") =>
            /\ outcome' = "pending"
            /\ \A d \in DOMAIN docs \ unread' : \A l \in DOMAIN docs[d] :
                 docs[d][l].task =>
                   \E i \in DOMAIN ops' :
                     ops'[i].task.file = d /\ ops'[i].task.line = l
            /\ \A i \in DOMAIN ops' : ops'[i].task.file \notin unread'
       /\ (unread' # {} /\ pc' = "idle") => outcome' = "returned"]_vars

\* a pass in which the read of one document with a task failed has resolved
\* the task of the other document and returned
C33_Witness ==
    /\ pc = "idle" /\ outcome = "returned"
    /\ \E d \in unread : \E l \in DOMAIN docs[d] : docs[d][l].task
    /\ \E i \in DOMAIN ops :
         ops[i].kind \in {"sync", "createMS"} /\ ops[i].task.file \notin unread

\* the documents and lines of the task lines that carry identifier id
CarriedAt(id) ==
    {<<d, l>> \in UNION {{d} \X DOMAIN docs[d] : d \in DOMAIN docs} :
       docs[d][l].task /\ MsToDoIdOf(docs[d][l].text) = id}

\* C34: No duplicate local task per remote identifier. Whenever
\* createObsidianTask writes the document it has appended a task line to,
\* no task line of any document carries the identifier of its remote task
\* yet, so the engine never adds a second line for an identifier.
C34_NoDuplicateLine ==
    [][\A i \in DOMAIN ops :
         (ops[i].kind = "createObs" /\ WriteOk(i)) => CarriedAt(ops[i].ms.id) = {}]_vars

\* C35: Unlink is followed by re-creation. When a pass in which every
\* adapter call succeeded has returned, every local task the pass unlinked
\* carries no remote-link identifier any more, so that the next pass
\* classifies it as local-only, creates a remote task for it and appends a
\* new link marker to its line.
C35_UnlinkedIsLocalOnly ==
    (pc = "idle" /\ outcome = "returned" /\ clean) =>
      \A i \in DOMAIN ops :
        (ops[i].kind = "unlink" /\ ops[i].pc = "done") =>
          MsToDoIdOf(LineNow(i).text) = "none"

\* C36: Orchestrator gate and success stamp. performSync starts a pass only
\* when the auth handler reports authenticated; lastSyncTime advances only in
\* the step in which a pass returned and its save is started; and in the
\* step in which a pass raised, lastSyncTime and the data file are unchanged
\* and the failure is shown in a notice, the plugin staying loaded.
C36_GateAndStamp ==
    [][(plugin.at = "loaded" /\ plugin'.at = "loaded") =>
         LET starts == Len(plugin'.running) > Len(plugin.running)
             ends == Len(plugin'.running) < Len(plugin.running)
             saves == Len(plugin'.saving) > Len(plugin.saving)
         IN /\ starts => plugin.authenticated
            /\ plugin'.lastSyncTime > plugin.lastSyncTime => (ends /\ saves)
            /\ (ends /\ ~saves) =>
                 /\ plugin'.lastSyncTime = plugin.lastSyncTime
                 /\ plugin'.data = plugin.data
                 /\ plugin'.notice = "failed"]_vars

\* a pass has returned and its stamp is in the data file, then another
\* pass raised
C36_Witness ==
    /\ plugin.at = "loaded"
    /\ plugin.lastSyncTime > 0
    /\ plugin.data.lastSyncTime = plugin.lastSyncTime
    /\ plugin.running = <<>> /\ plugin.saving = <<>>
    /\ plugin.notice = "failed"

\* C37: At most one auto-sync timer. While no handler of the settings tab
\* is awaiting saveSettings, at most one interval timer is active, and none
\* is active when the auto-sync setting is off.
C37_OneTimer ==
    (/\ plugin.at = "loaded"
     /\ \A k \in DOMAIN plugin.saving : plugin.saving[k].by = "sync") =>
      /\ plugin.timers <= 1
      /\ ~plugin.autoSync => plugin.timers = 0

\* C38: Clear Saved Token removes the saved token. After the Clear Token
\* action the access token in the plugin's data file is empty.
C38_TokenCleared ==
    [][clearToken => ~plugin'.data.accessToken]_vars

\* C39: Positional rewrite frame. updateTaskInContent returns a content with
\* the same number of lines in which every line other than the one at
\* task.line is unchanged; when task.line is before the first line or after
\* the last one, it returns the content unchanged.
C39_RewriteFrame ==
    (probe.fn = "updateTaskInContent" /\ probe.at = "returned") =>
      /\ Len(probe.out) = Len(probe.content)
      /\ \A l \in DOMAIN probe.content :
           l # probe.task.line => probe.out[l] = probe.content[l]
      /\ probe.task.line \notin DOMAIN probe.content => probe.out = probe.content

\* a call that rewrote the second of three lines
C39_Witness ==
    /\ probe.fn = "updateTaskInContent" /\ probe.at = "returned"
    /\ Len(probe.content) = 3 /\ probe.task.line = 2
    /\ probe.out[2] # probe.content[2]
    /\ probe.out[2] = TaskLine(probe.newTask.completed, probe.newTask.text)

\* C40: The inner 'recently updated' branch of the completion-conflict path
\* is unreachable. No resolution of any pass takes the branch that only
\* rewrites the ledger: a call that finds its identifier in the suppression
\* set returns at its entry, and a call that reaches the completion-conflict
\* path pushes from one of the two sides.
C40_InnerBranchUnreachable ==
    \A i \in DOMAIN ops :
      ops[i].kind = "sync" =>
        /\ ops[i].dec # "recent"
        /\ (/\ ops[i].dec \notin {"skip", "equal", "content"}
            /\ OpLocal(i).completed # OpRemote(i).completed) =>
             Push(ops[i].dec) # "none"

\* a pass that was invoked while an identifier was suppressed has resolved a
\* completion conflict of that identifier after the clear
C40_Witness ==
    \E i \in DOMAIN ops :
      /\ ops[i].kind = "sync"
      /\ ops[i].ms.id \in startSupp
      /\ ops[i].dec \in LocalWins \cup RemoteWins
      /\ ops[i].pc = "done"

TypeOK ==
    /\ pc \in {"idle", "sleep", "fetch", "run"}
    /\ timers \in 0..MaxTimers
    /\ editsLeft \in 0..MaxEdits
    /\ failsLeft \in 0..MaxFails + 1
    /\ recentlyUpdatedTasks \subseteq AllIds
    /\ DOMAIN lastKnownStates \subseteq AllIds
    /\ DOMAIN docs \subseteq DocSet
    /\ DOMAIN remote \subseteq AllIds
    /\ outcome \in {"none", "pending", "returned", "raised"}
    /\ plugin.at \in {"none", "loaded"}
    /\ probe.fn \in {"none", "syncExistingTask", "getDefaultListId", "codec",
                     "updateTaskInContent"}
    /\ unread \subseteq DocSet

=============================================================================
